---- MODULE Spec2Model ----
(***************************************************************************)
(* Issue-reporting wizard (IssueForm), its shared field schema, and the    *)
(* /api/issues backend with its in-memory store.                           *)
(*                                                                         *)
(* Strings are sequences of one-character strings, so that length, trim,   *)
(* prefix tests, parsing and formatting are computed as the code computes  *)
(* them.  JSON values are records [t |-> type, s |-> characters].          *)
(***************************************************************************)
EXTENDS Integers, Sequences, FiniteSets, TLC

(***************************************************************************)
(* Bounds of the model.                                                    *)
(***************************************************************************)
\* user edits (field changes and media operations) explored per wizard run
MaxEdits == 2
\* validations awaiting their result plus submissions awaiting a response
MaxAsync == 2

(***************************************************************************)
(* Strings.                                                                *)
(***************************************************************************)
S_empty == << >>
S_blank == << " " >>
S_a == << "a" >>
S_ab == << "a", "b" >>
S_custom == << "c", "u", "s", "t", "o", "m" >>
S_always == << "a", "l", "w", "a", "y", "s" >>

IsSpace(c) == c = " "

RECURSIVE TrimStart(_)
TrimStart(s) ==
  IF s # << >> /\ IsSpace(Head(s)) THEN TrimStart(Tail(s)) ELSE s

RECURSIVE TrimEnd(_)
TrimEnd(s) ==
  IF s # << >> /\ IsSpace(s[Len(s)]) THEN TrimEnd(SubSeq(s, 1, Len(s) - 1)) ELSE s

\* String.prototype.trim
Trim(s) == TrimEnd(TrimStart(s))

(***************************************************************************)
(* JSON values and the field schema (shared/schema.ts).                    *)
(***************************************************************************)
JStr(s) == [t |-> "string", s |-> s]
JBool(b) == [t |-> IF b THEN "true" ELSE "false", s |-> << >>]
JUndefined == [t |-> "undefined", s |-> << >>]
JNull == [t |-> "null", s |-> << >>]
JNumber == [t |-> "number", s |-> << >>]

\* text(...).notNull() columns of the issues table that stay in the insert schema
NotNullColumns ==
  {"title", "description", "platform", "productCategory", "severity",
   "frequency", "reproducible", "reproductionSteps", "actualBehavior",
   "softwareVersion", "osVersion", "reportedBy"}

\* text(...) columns without notNull() that stay in the insert schema
NullableColumns ==
  {"customFrequencyDescription", "expectedBehavior", "operatingSystem",
   "additionalEnvironment"}

InsertColumns == NotNullColumns \cup NullableColumns

\* the value of key k in a JSON object, undefined when the key is absent
Get(obj, k) == IF k \in DOMAIN obj THEN obj[k] ELSE JUndefined

\* createInsertSchema(issues).omit(...): a notNull text column is z.string(),
\* a nullable text column is z.string().nullable().optional()
InsertFieldOk(k, v) ==
  IF k \in NotNullColumns THEN v.t = "string"
  ELSE v.t \in {"string", "null", "undefined"}

insertIssueSchemaErrors(obj) ==
  {k \in InsertColumns : ~InsertFieldOk(k, Get(obj, k))}

FormFields == InsertColumns \cup {"acceptTerms"}

\* issueFormSchema = insertIssueSchema.extend({acceptTerms, customFrequencyDescription, reportedBy})
FormFieldOk(k, v) ==
  CASE k = "acceptTerms" -> v.t = "true"
    [] k = "customFrequencyDescription" -> v.t \in {"string", "undefined"}
    [] k = "reportedBy" -> v.t = "string" /\ Len(v.s) >= 2
    [] OTHER -> InsertFieldOk(k, v)

issueFormSchemaErrors(obj) ==
  {k \in FormFields : ~FormFieldOk(k, Get(obj, k))}

(***************************************************************************)
(* The wizard (IssueForm).                                                 *)
(***************************************************************************)
totalSteps == 5

\* the fields useForm registers through defaultValues
TextFields ==
  {"title", "description", "platform", "productCategory", "severity",
   "frequency", "customFrequencyDescription", "reproducible",
   "reproductionSteps", "expectedBehavior", "actualBehavior",
   "softwareVersion", "osVersion", "additionalEnvironment", "reportedBy"}

defaultValues ==
  [k \in TextFields \cup {"acceptTerms"} |->
     IF k = "acceptTerms" THEN JBool(FALSE) ELSE JStr(S_empty)]

VARIABLES
  currentStep,   \* useState(1)
  isSubmitting,  \* useState(false)
  values,        \* form values held by useForm
  errors,        \* form.formState.errors: the fields that carry an error
  photos,        \* useState<File[]>([])
  video,         \* useState<File | null>(null), as a sequence of length <= 1
  audio,         \* useState<{file, duration} | null>(null), as a sequence of length <= 1
  files,         \* useState<File[]>([])
  pending,       \* goToNextStep calls suspended at `await form.trigger(...)`
  inflight,      \* handleSubmit calls suspended at `await fetch(...)`
  route,         \* the location set by navigate(): "form" or the ticket id shown
  emitted,       \* titles of the toasts raised by the handler that ran last
  last,          \* name of the handler or continuation that ran last
  edits          \* number of user edits so far

wvars == <<currentStep, isSubmitting, values, errors, photos, video, audio,
           files, pending, inflight, route, emitted, last, edits>>

VARIABLES
  showCamera,    \* MediaUpload useState(false): "none", or the instance whose
                 \* camera is open: "photo", "video", "recording" (video, with
                 \* CameraCapture.isRecording)
  captures,      \* camera callbacks (toBlob, 'stop') not yet delivered
  draft          \* localStorage slot 'issueFormDraft', as a sequence of length <= 1

mvars == <<showCamera, captures, draft>>

VARIABLES
  isListening,   \* SpeechToText useState(false)
  hasError,      \* SpeechToText useState(false)
  transcript,    \* SpeechToText useState('')
  dictated,      \* transcripts handed to setTimeout(..., 0), not yet delivered
  recognition    \* the recognizer behind recognitionRef: "idle", "running",
                 \* "stopping" (stop() called, events still due) or "errored"
                 \* (onerror delivered, onend still due)

tvars == <<isListening, hasError, transcript, dictated, recognition>>

\* The SpeechToText that React keeps across steps 2 and 3: the fourth field
\* block of both steps has the same element structure, so the instance of
\* "reproduction-steps" is re-rendered as "reported-by" with its state.
VARIABLES
  fieldId,        \* its fieldId prop, "none" while no such element is rendered
  refStarted,     \* start() has been called on recognitionRef.current
  slotListening,  \* its useState isListening
  staleNames,     \* the names of started recognizers its cleanup has dropped
  timeouts        \* onTranscriptReceived calls handed to setTimeout(..., 0)

rvars == <<fieldId, refStarted, slotListening, staleNames, timeouts>>

\* The media streams of CameraCapture and AudioRecorder.
VARIABLES
  camStreams,     \* the streams getUserMedia gave a CameraCapture, each "live"
                  \* or "stopped" (all its tracks stopped), in order of arrival
  stream,         \* CameraCapture useState stream: an index of camStreams, 0 for null
  cleanupStream,  \* the stream the cleanup of the current camera effect closes over
  gumPending,     \* getUserMedia calls of the mounted CameraCapture not yet settled
  gumOrphan,      \* getUserMedia calls not yet settled whose CameraCapture unmounted
  micStream       \* the stream of AudioRecorder.startRecording: "none", "live", "stopped"

cvars == <<camStreams, stream, cleanupStream, gumPending, gumOrphan, micStream>>

(***************************************************************************)
(* Files offered to the media buckets of step 4.                           *)
(***************************************************************************)
MB == 1048576

N_photo == << "a", ".", "p", "n", "g" >>
N_clip == << "v", ".", "m", "p", "4" >>
N_doc == << "d", ".", "p", "d", "f" >>
N_voice == << "v", "o", "i", "c", "e", "-", "n", "o", "t", "e", ".", "w", "e", "b", "m" >>
T_png == << "i", "m", "a", "g", "e", "/", "p", "n", "g" >>
T_mp4 == << "v", "i", "d", "e", "o", "/", "m", "p", "4" >>
T_pdf == << "a", "p", "p", "l", "i", "c", "a", "t", "i", "o", "n", "/", "p", "d", "f" >>
T_audiowebm == << "a", "u", "d", "i", "o", "/", "w", "e", "b", "m" >>

File(n, t, sz) == [name |-> n, type |-> t, size |-> sz]

PhotoA == File(N_photo, T_png, 1)
ClipA == File(N_clip, T_mp4, 1)
DocA == File(N_doc, T_pdf, 1)
VoiceNote == File(N_voice, T_audiowebm, 1)

\* a photo bucket whose cap is one too high
MediaUploadProps_Eleven(type) ==
  IF type = "photo"
  THEN [maxFiles |-> 11, maxSize |-> 10 * MB]
  ELSE [maxFiles |-> 1, maxSize |-> 100 * MB]

\* props IssueForm passes to <MediaUpload type="photo"> and <MediaUpload type="video">
MediaUploadProps(type) ==
  IF type = "photo"
  THEN [maxFiles |-> 10, maxSize |-> 10 * MB]
  ELSE [maxFiles |-> 1, maxSize |-> 100 * MB]

\* a generic-file bucket whose cap is one too high
FileUploadProps_Six == [maxFiles |-> 6, maxSize |-> 50 * MB]

\* props IssueForm passes to <FileUpload>
FileUploadProps == [maxFiles |-> 5, maxSize |-> 50 * MB]

Oversized(batch, maxSize) == {i \in DOMAIN batch : batch[i].size > maxSize}

\* Array.prototype.splice(index, 1) on a copy
RemoveAt(seq, index) ==
  SubSeq(seq, 1, index - 1) \o SubSeq(seq, index + 1, Len(seq))

(***************************************************************************)
(* Step validation.                                                        *)
(***************************************************************************)
\* TriggerNames with step 5 validating nothing
TriggerNames_NoTerms(step) ==
  CASE step = 1 -> {"title", "description", "platform", "productCategory", "severity"}
    [] step = 2 -> {"reproducible", "reproductionSteps", "actualBehavior"}
    [] step = 3 -> {"softwareVersion", "osVersion", "reportedBy"}
    [] OTHER -> {}

\* the field lists goToNextStep hands to form.trigger
TriggerNames(step) ==
  CASE step = 1 -> {"title", "description", "platform", "productCategory", "severity"}
    [] step = 2 -> {"reproducible", "reproductionSteps", "actualBehavior"}
    [] step = 3 -> {"softwareVersion", "osVersion", "reportedBy"}
    [] step = 5 -> {"acceptTerms"}
    [] OTHER -> {}

\* form.trigger(names): the zod resolver parses all values with the form
\* schema, the errors of the named fields decide the result
TriggerErrors(names, vals) == issueFormSchemaErrors(vals) \cap names

\* CustomFrequencyMissing without the trim() test
CustomFrequencyMissing_NoTrim(vals) ==
  /\ vals["frequency"] = JStr(S_custom)
  /\ LET customFrequencyValue == vals["customFrequencyDescription"]
     IN  \/ customFrequencyValue.t # "string"
         \/ customFrequencyValue.s = S_empty

\* the pre-check of step 1: frequency is 'custom' and the description is
\* falsy or blank
CustomFrequencyMissing(vals) ==
  /\ vals["frequency"] = JStr(S_custom)
  /\ LET customFrequencyValue == vals["customFrequencyDescription"]
     IN  \/ customFrequencyValue.t # "string"
         \/ customFrequencyValue.s = S_empty
         \/ Trim(customFrequencyValue.s) = S_empty

\* isValid as goToNextStep computes it at a step
IsValid(step, vals) ==
  IF step = 1 /\ CustomFrequencyMissing(vals) THEN FALSE
  ELSE IF step = 4 THEN TRUE
  ELSE TriggerErrors(TriggerNames(step), vals) = {}

\* the condition under which goToNextStep calls setCurrentStep(currentStep + 1)
Advances(step, isValid) == isValid /\ step < totalSteps

\* the inputs each step renders
EditableAt(step, vals) ==
  CASE step = 1 -> {"title", "description", "platform", "productCategory", "severity"}
    [] step = 2 -> {"frequency", "reproducible", "reproductionSteps",
                    "expectedBehavior", "actualBehavior"}
                   \cup (IF vals["frequency"] = JStr(S_custom)
                         THEN {"customFrequencyDescription"} ELSE {})
    [] step = 3 -> {"softwareVersion", "osVersion", "additionalEnvironment", "reportedBy"}
    [] step = 5 -> {"acceptTerms"}
    [] OTHER -> {}

\* inputs bound with form.register (mode 'onChange') or set with shouldValidate: true
ValidatedOnChange ==
  {"title", "description", "platform", "customFrequencyDescription",
   "reproductionSteps", "expectedBehavior", "actualBehavior",
   "softwareVersion", "osVersion", "additionalEnvironment", "reportedBy"}

\* what the user enters into a field in the runs explored; a field with no
\* entry here keeps its default value
Inputs(k) ==
  CASE k = "acceptTerms" -> {JBool(TRUE), JBool(FALSE)}
    [] k = "title" -> {JStr(S_empty), JStr(S_a)}
    [] k = "frequency" -> {JStr(S_always), JStr(S_custom)}
    [] k = "customFrequencyDescription" -> {JStr(S_empty), JStr(S_blank), JStr(S_a)}
    [] k = "reportedBy" -> {JStr(S_empty), JStr(S_a), JStr(S_ab)}
    [] OTHER -> {}

(***************************************************************************)
(* The backend and its store (server/routes.ts); declared here because the *)
(* wizard's actions leave them unchanged.                                  *)
(***************************************************************************)
VARIABLES
  issues,          \* MemStorage.issues, as a sequence in insertion order
  medias,          \* MemStorage.medias, as a sequence in insertion order
  currentIssueId,  \* MemStorage.currentIssueId
  currentMediaId,  \* MemStorage.currentMediaId
  disk,            \* paths of the files in the uploads directory
  handlers,        \* the POST handlers suspended at an await
  response,        \* the response sent last
  served           \* number of requests received so far

svars == <<issues, medias, currentIssueId, currentMediaId, disk, handlers,
           response, served>>

VARIABLES
  users,          \* MemStorage.users, as a sequence in insertion order
  currentUserId   \* MemStorage.currentUserId

uvars == <<users, currentUserId>>

vars == <<wvars, svars, mvars, tvars, rvars, cvars, uvars>>

(***************************************************************************)
(* Wizard actions.                                                         *)
(***************************************************************************)
Ran(op, step, ok) == [op |-> op, step |-> step, ok |-> ok]

Mounted == route.path = "form"

\* a field changes through its input, select, checkbox or a dictated transcript
EditField(k, v) ==
  /\ Mounted
  /\ showCamera = "none"
  /\ edits < MaxEdits
  /\ k \in EditableAt(currentStep, values)
  /\ v \in Inputs(k)
  /\ v # values[k]
  /\ values' = [values EXCEPT ![k] = v]
  /\ errors' = IF k \in ValidatedOnChange
               THEN (errors \ {k}) \cup
                    (issueFormSchemaErrors([values EXCEPT ![k] = v]) \cap {k})
               ELSE errors
  /\ edits' = edits + 1
  /\ emitted' = << >>
  /\ last' = Ran("edit", currentStep, TRUE)
  /\ UNCHANGED <<currentStep, isSubmitting, photos, video, audio, files,
                 pending, inflight, route>>
  /\ UNCHANGED <<cvars, rvars, svars, uvars, mvars, tvars>>

\* the closure a suspended goToNextStep keeps: the step and media of its render
Suspended(step, vals) ==
  [step |-> step, vals |-> vals, photos |-> photos, video |-> video,
   audio |-> audio, files |-> files]

\* the fieldId of the SpeechToText in the fourth field block of a step
AdapterFieldId(step) ==
  CASE step = 2 -> "reproduction-steps"
    [] step = 3 -> "reported-by"
    [] OTHER -> "none"

\* the form field the onTranscriptReceived of that element writes
AdapterField(id) ==
  IF id = "reproduction-steps" THEN "reproductionSteps" ELSE "reportedBy"

\* the render after setCurrentStep(step): the mount effect of the kept
\* SpeechToText (deps [fieldId]) cleans the old recognizer up and creates one
\* named after the new fieldId, and the isListening effect (deps include
\* fieldId) starts it when isListening is still true
Rerendered(step) ==
  LET id == AdapterFieldId(step)
  IN  /\ fieldId' = id
      /\ IF id = fieldId
         THEN UNCHANGED <<refStarted, slotListening, staleNames>>
         ELSE IF id = "none" \/ fieldId = "none"
         THEN /\ refStarted' = FALSE
              /\ slotListening' = FALSE
              /\ staleNames' = {}
         ELSE /\ refStarted' = slotListening
              /\ slotListening' = slotListening
              /\ staleNames' = staleNames \cup (IF refStarted THEN {fieldId} ELSE {})
      /\ UNCHANGED timeouts

\* goToNextStep up to its first await (or to its end where it has none)
GoToNextStep ==
  /\ Mounted
  /\ showCamera = "none"
  /\ ~isSubmitting
  /\ Len(pending) + Len(inflight) < MaxAsync
  /\ IF currentStep = 1 /\ CustomFrequencyMissing(values)
     THEN /\ errors' = errors \cup {"customFrequencyDescription"}
          /\ emitted' = << "Validation Error" >>
          /\ last' = Ran("goToNextStep", currentStep, FALSE)
          /\ UNCHANGED <<currentStep, pending>>
     ELSE IF currentStep = 4
     THEN /\ currentStep' = IF Advances(currentStep, IsValid(currentStep, values))
                            THEN currentStep + 1 ELSE currentStep
          /\ emitted' = << >>
          /\ last' = Ran("goToNextStep", currentStep, TRUE)
          /\ UNCHANGED <<errors, pending>>
     ELSE /\ pending' = Append(pending, Suspended(currentStep, values))
          /\ emitted' = << >>
          /\ last' = Ran("trigger", currentStep, TRUE)
          /\ UNCHANGED <<currentStep, errors>>
  /\ UNCHANGED <<isSubmitting, values, photos, video, audio, files, inflight,
                 route, edits>>
  /\ Rerendered(currentStep')
  /\ UNCHANGED <<cvars, svars, uvars, mvars, tvars>>

\* JSON.stringify of an object: properties that are undefined are left out
JSONStringify(obj) ==
  [k \in {x \in DOMAIN obj : obj[x] # JUndefined} |-> obj[k]]

\* the multipart body handleSubmit builds
FormDataOf(vals, ph, vi, au, fi) ==
  [issueData |-> JSONStringify(vals),
   files |-> ph \o vi \o [i \in DOMAIN au |-> au[i].file] \o fi]

\* goToNextStep after `await form.trigger(...)`, with handleSubmit up to
\* `await fetch(...)` when step 5 validated
ResolveTrigger ==
  /\ pending # << >>
  /\ LET p == Head(pending)
         names == TriggerNames(p.step)
         isValid == IsValid(p.step, p.vals)
     IN  /\ pending' = Tail(pending)
         /\ errors' = (errors \ names) \cup TriggerErrors(names, p.vals)
         /\ last' = Ran("resolve", p.step, isValid)
         /\ IF p.step = 5 /\ isValid
            THEN /\ isSubmitting' = TRUE
                 /\ inflight' = Append(inflight,
                      FormDataOf(values, p.photos, p.video, p.audio, p.files))
                 /\ emitted' = << >>
                 /\ UNCHANGED currentStep
            ELSE IF Advances(p.step, isValid)
            THEN /\ currentStep' = p.step + 1
                 /\ emitted' = << >>
                 /\ UNCHANGED <<isSubmitting, inflight>>
            ELSE /\ emitted' = IF ~isValid THEN << "Validation Error" >> ELSE << >>
                 /\ UNCHANGED <<currentStep, isSubmitting, inflight>>
  /\ UNCHANGED <<values, photos, video, audio, files, route, edits>>
  /\ Rerendered(currentStep')
  /\ UNCHANGED <<cvars, svars, uvars, mvars, tvars>>

GoToPreviousStep ==
  /\ Mounted
  /\ showCamera = "none"
  /\ ~(currentStep = 1 \/ isSubmitting)
  /\ currentStep' = IF currentStep > 1 THEN currentStep - 1 ELSE currentStep
  /\ emitted' = << >>
  /\ last' = Ran("goToPreviousStep", currentStep, TRUE)
  /\ UNCHANGED <<isSubmitting, values, errors, photos, video, audio, files,
                 pending, inflight, route, edits>>
  /\ Rerendered(currentStep')
  /\ UNCHANGED <<cvars, svars, uvars, mvars, tvars>>

(***************************************************************************)
(* Ticket ids (createJiraTicket).                                          *)
(***************************************************************************)
\* resolution of Math.random(): it returns k / RandomSteps for k in 0..RandomSteps-1
RandomSteps == 4

DigitChar(d) ==
  CASE d = 0 -> "0" [] d = 1 -> "1" [] d = 2 -> "2" [] d = 3 -> "3" [] d = 4 -> "4"
    [] d = 5 -> "5" [] d = 6 -> "6" [] d = 7 -> "7" [] d = 8 -> "8" [] d = 9 -> "9"

\* Number.prototype.toString for a non-negative integer
RECURSIVE NumberToString(_)
NumberToString(n) ==
  IF n < 10 THEN << DigitChar(n) >>
  ELSE Append(NumberToString(n \div 10), DigitChar(n % 10))

ticketPrefix == << "I", "R", "S" >>

\* TicketNumber without the offset of 1000
TicketNumber_NoOffset(k) == (k * 9000) \div RandomSteps

\* Math.floor(1000 + Math.random() * 9000) for Math.random() = k / RandomSteps
TicketNumber(k) == (1000 * RandomSteps + k * 9000) \div RandomSteps

\* `${ticketPrefix}-${ticketNumber}`
createJiraTicket(k) == ticketPrefix \o << "-" >> \o NumberToString(TicketNumber(k))

(***************************************************************************)
(* Submission (handleSubmit after its await) and the media buckets.        *)
(***************************************************************************)
\* what the wizard can get back from fetch('/api/issues'): a 2xx response
\* with a ticket id, a non-2xx response, or a rejected fetch
Responses ==
  {[ok |-> TRUE, ticketId |-> createJiraTicket(k)] : k \in {0, RandomSteps - 1}}
  \cup {[ok |-> FALSE, ticketId |-> << >>]}

\* handleSubmit after `await fetch(...)`: navigate on success, toast on
\* failure, setIsSubmitting(false) in both
FetchSettled(i, r) ==
  /\ i \in DOMAIN inflight
  /\ r \in Responses
  /\ inflight' = RemoveAt(inflight, i)
  /\ isSubmitting' = FALSE
  /\ IF r.ok
     THEN /\ route' = [path |-> "success", ticketId |-> r.ticketId]
          /\ emitted' = << >>
     ELSE /\ emitted' = << "Submission Failed" >>
          /\ UNCHANGED route
  /\ last' = Ran("settled", currentStep, r.ok)
  /\ UNCHANGED <<currentStep, values, errors, photos, video, audio, files,
                 pending, edits>>
  /\ UNCHANGED <<cvars, rvars, svars, uvars, mvars, tvars>>

\* step 4 is rendered and no camera modal covers it
AtMedia == Mounted /\ currentStep = 4 /\ edits < MaxEdits /\ showCamera = "none"

\* MediaUpload.handleFileChange for the photo and the video bucket
MediaUploadFileChange(type, selectedFiles) ==
  /\ AtMedia
  /\ LET bucket == IF type = "photo" THEN photos ELSE video
         props == MediaUploadProps(type)
         accepted ==
           /\ Len(selectedFiles) + Len(bucket) <= props.maxFiles
           /\ Oversized(selectedFiles, props.maxSize) = {}
         result ==
           IF ~accepted THEN bucket
           ELSE IF type = "photo" THEN bucket \o selectedFiles
           ELSE IF Len(selectedFiles) > 0 THEN << selectedFiles[1] >>
           ELSE bucket
     IN  /\ photos' = IF type = "photo" THEN result ELSE photos
         /\ video' = IF type = "video" THEN result ELSE video
         /\ emitted' =
              IF Len(selectedFiles) + Len(bucket) > props.maxFiles
              THEN << "Too many files" >>
              ELSE IF Oversized(selectedFiles, props.maxSize) # {}
              THEN << "File too large" >>
              ELSE << >>
         /\ last' = Ran("MediaUpload.handleFileChange", currentStep, accepted)
  /\ edits' = edits + 1
  /\ UNCHANGED <<currentStep, isSubmitting, values, errors, audio, files,
                 pending, inflight, route>>
  /\ UNCHANGED <<cvars, rvars, svars, uvars, mvars, tvars>>

\* the recorder's onstop handler: the voice note replaces the audio bucket
AudioRecorderStop ==
  /\ AtMedia
  /\ audio' = << [file |-> VoiceNote, duration |-> << "0", "0", ":", "0", "1" >>] >>
  /\ emitted' = << >>
  /\ last' = Ran("AudioRecorder.onstop", currentStep, TRUE)
  /\ edits' = edits + 1
  /\ UNCHANGED <<currentStep, isSubmitting, values, errors, photos, video,
                 files, pending, inflight, route>>
  /\ micStream' = IF micStream = "live" THEN "stopped" ELSE micStream
  /\ UNCHANGED <<camStreams, stream, cleanupStream, gumPending, gumOrphan>>
  /\ UNCHANGED <<rvars, svars, uvars, mvars, tvars>>

\* FileUpload.handleFileChange
FileUploadFileChange(selectedFiles) ==
  /\ AtMedia
  /\ LET accepted ==
           /\ Len(selectedFiles) + Len(files) <= FileUploadProps.maxFiles
           /\ Oversized(selectedFiles, FileUploadProps.maxSize) = {}
     IN  /\ files' = IF accepted THEN files \o selectedFiles ELSE files
         /\ emitted' =
              IF Len(selectedFiles) + Len(files) > FileUploadProps.maxFiles
              THEN << "Too many files" >>
              ELSE IF Oversized(selectedFiles, FileUploadProps.maxSize) # {}
              THEN << "File too large" >>
              ELSE << >>
         /\ last' = Ran("FileUpload.handleFileChange", currentStep, accepted)
  /\ edits' = edits + 1
  /\ UNCHANGED <<currentStep, isSubmitting, values, errors, photos, video,
                 audio, pending, inflight, route>>
  /\ UNCHANGED <<cvars, rvars, svars, uvars, mvars, tvars>>

\* the batches a user picks in the wizard runs
PhotoBatches == { << PhotoA >> }
VideoBatches == { << ClipA >> }
FileBatches == { << DocA >> }

(***************************************************************************)
(* Step 4 in full: camera capture, removal, drag and drop; the draft slot. *)
(***************************************************************************)
N_photoB == << "b", ".", "p", "n", "g" >>
\* `photo_${Date.now()}.jpg` and `video_${Date.now()}.webm`
N_shot(now) == << "p", "h", "o", "t", "o", "_" >> \o NumberToString(now) \o << ".", "j", "p", "g" >>
N_rec(now) == << "v", "i", "d", "e", "o", "_" >> \o NumberToString(now) \o << ".", "w", "e", "b", "m" >>
T_jpeg == << "i", "m", "a", "g", "e", "/", "j", "p", "e", "g" >>
T_videowebm == << "v", "i", "d", "e", "o", "/", "w", "e", "b", "m" >>

PhotoB == File(N_photoB, T_png, 1)
PhotoBig == File(N_photo, T_png, 10 * MB + 1)
ClipBig == File(N_clip, T_mp4, 100 * MB + 1)
DocBig == File(N_doc, T_pdf, 50 * MB + 1)

\* takePhoto: new File([blob], `photo_${Date.now()}.jpg`, {type: 'image/jpeg'})
PhotoShot(now, sz) == File(N_shot(now), T_jpeg, sz)

\* the recorder's stop listener: new File([blob], `video_${Date.now()}.webm`, ...)
ClipShot(now, sz) == File(N_rec(now), T_videowebm, sz)

Copies(f, n) == [i \in 1 .. n |-> f]

\* the setter IssueForm passes to the video bucket
SetVideo(fs) == IF Len(fs) > 0 THEN << fs[1] >> ELSE << >>

\* handleCaptureFile where a captured video is appended to the bucket
handleCaptureFile_Appends(type, fs, file) ==
  LET props == MediaUploadProps(type)
  IN  IF file.size > props.maxSize
      THEN [set |-> FALSE, files |-> fs, toast |-> << "File too large" >>]
      ELSE IF type = "photo" /\ 1 + Len(fs) > props.maxFiles
      THEN [set |-> FALSE, files |-> fs, toast |-> << "Too many files" >>]
      ELSE [set |-> TRUE, files |-> Append(fs, file), toast |-> << >>]

\* MediaUpload.handleCaptureFile with the files prop fs of its render:
\* whether setFiles is called, with what, and the toast raised
handleCaptureFile(type, fs, file) ==
  LET props == MediaUploadProps(type)
  IN  IF file.size > props.maxSize
      THEN [set |-> FALSE, files |-> fs, toast |-> << "File too large" >>]
      ELSE IF type = "photo"
      THEN IF 1 + Len(fs) > props.maxFiles
           THEN [set |-> FALSE, files |-> fs, toast |-> << "Too many files" >>]
           ELSE [set |-> TRUE, files |-> Append(fs, file), toast |-> << >>]
      ELSE [set |-> TRUE, files |-> << file >>, toast |-> << >>]

\* MediaUpload.handleRemove
MediaUploadRemove(type, index) ==
  /\ AtMedia
  /\ index \in DOMAIN (IF type = "photo" THEN photos ELSE video)
  /\ photos' = IF type = "photo" THEN RemoveAt(photos, index) ELSE photos
  /\ video' = IF type = "video" THEN SetVideo(RemoveAt(video, index)) ELSE video
  /\ emitted' = << >>
  /\ last' = Ran("MediaUpload.handleRemove", currentStep, TRUE)
  /\ edits' = edits + 1
  /\ UNCHANGED <<currentStep, isSubmitting, values, errors, audio, files,
                 pending, inflight, route>>
  /\ UNCHANGED <<cvars, rvars, svars, uvars, mvars, tvars>>

\* AudioRecorder.deleteAudio
AudioRecorderDelete ==
  /\ AtMedia
  /\ audio # << >>
  /\ audio' = << >>
  /\ emitted' = << >>
  /\ last' = Ran("AudioRecorder.deleteAudio", currentStep, TRUE)
  /\ edits' = edits + 1
  /\ UNCHANGED <<currentStep, isSubmitting, values, errors, photos, video,
                 files, pending, inflight, route>>
  /\ UNCHANGED <<cvars, rvars, svars, uvars, mvars, tvars>>

\* FileUpload.handleDrop
FileUploadDrop(droppedFiles) ==
  /\ AtMedia
  /\ LET accepted ==
           /\ Len(droppedFiles) > 0
           /\ Len(droppedFiles) + Len(files) <= FileUploadProps.maxFiles
           /\ Oversized(droppedFiles, FileUploadProps.maxSize) = {}
     IN  /\ files' = IF accepted THEN files \o droppedFiles ELSE files
         /\ emitted' =
              IF Len(droppedFiles) = 0 THEN << >>
              ELSE IF Len(droppedFiles) + Len(files) > FileUploadProps.maxFiles
              THEN << "Too many files" >>
              ELSE IF Oversized(droppedFiles, FileUploadProps.maxSize) # {}
              THEN << "File too large" >>
              ELSE << >>
         /\ last' = Ran("FileUpload.handleDrop", currentStep, accepted)
  /\ edits' = edits + 1
  /\ UNCHANGED <<currentStep, isSubmitting, values, errors, photos, video,
                 audio, pending, inflight, route>>
  /\ UNCHANGED <<cvars, rvars, svars, uvars, mvars, tvars>>

\* FileUpload.handleRemove
FileUploadRemove(index) ==
  /\ AtMedia
  /\ index \in DOMAIN files
  /\ files' = RemoveAt(files, index)
  /\ emitted' = << >>
  /\ last' = Ran("FileUpload.handleRemove", currentStep, TRUE)
  /\ edits' = edits + 1
  /\ UNCHANGED <<currentStep, isSubmitting, values, errors, photos, video,
                 audio, pending, inflight, route>>
  /\ UNCHANGED <<cvars, rvars, svars, uvars, mvars, tvars>>

\* getUserMedia calls per run
MaxStreams == 3

StreamBudget == Len(camStreams) + gumPending + gumOrphan < MaxStreams

\* stream.getTracks().forEach(track => track.stop()) on the stream of a closure
StopTracks(streams, index) ==
  IF index = 0 THEN streams ELSE [streams EXCEPT ![index] = "stopped"]

\* the first run of the camera effect: its closure holds stream = null, and
\* startCamera awaits getUserMedia
CameraMounted ==
  /\ StreamBudget
  /\ stream' = 0
  /\ cleanupStream' = 0
  /\ gumPending' = 1
  /\ UNCHANGED <<camStreams, gumOrphan, micStream>>

\* the camera effect's cleanup at unmount
CameraUnmounted ==
  /\ camStreams' = StopTracks(camStreams, cleanupStream)
  /\ stream' = 0
  /\ cleanupStream' = 0
  /\ gumPending' = 0
  /\ gumOrphan' = gumOrphan + gumPending
  /\ UNCHANGED micStream

\* "use camera": setShowCamera(true) in the photo or the video MediaUpload
UseCamera(type) ==
  /\ Mounted
  /\ currentStep = 4
  /\ showCamera = "none"
  /\ type \in {"photo", "video"}
  /\ showCamera' = type
  /\ emitted' = << >>
  /\ last' = Ran("useCamera", currentStep, TRUE)
  /\ UNCHANGED <<currentStep, isSubmitting, values, errors, photos, video, audio,
                 files, pending, inflight, route, edits, captures, draft>>
  /\ CameraMounted
  /\ UNCHANGED <<rvars, svars, uvars, tvars>>

\* onClose of the camera modal
CloseCamera ==
  /\ Mounted
  /\ showCamera # "none"
  /\ showCamera' = "none"
  /\ emitted' = << >>
  /\ last' = Ran("onClose", currentStep, TRUE)
  /\ UNCHANGED <<currentStep, isSubmitting, values, errors, photos, video, audio,
                 files, pending, inflight, route, edits, captures, draft>>
  /\ CameraUnmounted
  /\ UNCHANGED <<rvars, svars, uvars, tvars>>

\* takePhoto up to canvas.toBlob: the callback keeps the onCapture of this
\* render, and with it the files prop of the photo bucket
TakePhoto(sz) ==
  /\ Mounted
  /\ showCamera = "photo"
  /\ stream # 0
  /\ edits < MaxEdits
  /\ edits' = edits + 1
  /\ Len(captures) < MaxAsync
  /\ captures' = Append(captures, [type |-> "photo", file |-> PhotoShot(edits, sz), files |-> photos])
  /\ emitted' = << >>
  /\ last' = Ran("takePhoto", currentStep, TRUE)
  /\ UNCHANGED <<currentStep, isSubmitting, values, errors, photos, video, audio,
                 files, pending, inflight, route, showCamera, draft>>
  /\ UNCHANGED <<cvars, rvars, svars, uvars, tvars>>

\* CameraCapture.startRecording
StartRecording ==
  /\ Mounted
  /\ showCamera = "video"
  /\ stream # 0
  /\ showCamera' = "recording"
  /\ emitted' = << >>
  /\ last' = Ran("startRecording", currentStep, TRUE)
  /\ UNCHANGED <<currentStep, isSubmitting, values, errors, photos, video, audio,
                 files, pending, inflight, route, edits, captures, draft>>
  /\ UNCHANGED <<cvars, rvars, svars, uvars, tvars>>

\* CameraCapture.stopRecording: the recorder's 'stop' listener runs later
StopRecording(sz) ==
  /\ Mounted
  /\ showCamera = "recording"
  /\ edits < MaxEdits
  /\ edits' = edits + 1
  /\ Len(captures) < MaxAsync
  /\ showCamera' = "video"
  /\ captures' = Append(captures, [type |-> "video", file |-> ClipShot(edits, sz), files |-> video])
  /\ emitted' = << >>
  /\ last' = Ran("stopRecording", currentStep, TRUE)
  /\ UNCHANGED <<currentStep, isSubmitting, values, errors, photos, video, audio,
                 files, pending, inflight, route, draft>>
  /\ UNCHANGED <<cvars, rvars, svars, uvars, tvars>>

\* the toBlob callback or the 'stop' listener calls onCapture(file)
CaptureDelivered ==
  /\ captures # << >>
  /\ LET c == Head(captures)
         r == handleCaptureFile(c.type, c.files, c.file)
         own == IF c.type = "photo" THEN {"photo"} ELSE {"video", "recording"}
     IN  /\ captures' = Tail(captures)
         /\ photos' = IF c.type = "photo" /\ r.set THEN r.files ELSE photos
         /\ video' = IF c.type = "video" /\ r.set THEN SetVideo(r.files) ELSE video
         /\ showCamera' = IF r.set /\ showCamera \in own THEN "none" ELSE showCamera
         /\ emitted' = r.toast
         /\ last' = Ran("MediaUpload.handleCaptureFile", currentStep, r.set)
  /\ UNCHANGED <<currentStep, isSubmitting, values, errors, audio, files,
                 pending, inflight, route, edits, draft>>
  /\ IF showCamera' = "none" /\ showCamera # "none"
     THEN CameraUnmounted
     ELSE UNCHANGED cvars
  /\ UNCHANGED <<rvars, svars, uvars, tvars>>

\* startCamera after `await navigator.mediaDevices.getUserMedia(...)`
CameraStreamAcquired ==
  /\ gumPending > 0
  /\ camStreams' = Append(camStreams, "live")
  /\ stream' = Len(camStreams) + 1
  /\ gumPending' = gumPending - 1
  /\ emitted' = << >>
  /\ last' = Ran("startCamera", currentStep, TRUE)
  /\ UNCHANGED <<cleanupStream, gumOrphan, micStream>>
  /\ UNCHANGED <<currentStep, isSubmitting, values, errors, photos, video, audio,
                 files, pending, inflight, route, edits>>
  /\ UNCHANGED <<rvars, svars, uvars, mvars, tvars>>

\* the same, for a CameraCapture that has unmounted meanwhile
OrphanStreamAcquired ==
  /\ gumOrphan > 0
  /\ camStreams' = Append(camStreams, "live")
  /\ gumOrphan' = gumOrphan - 1
  /\ emitted' = << >>
  /\ last' = Ran("startCamera", currentStep, FALSE)
  /\ UNCHANGED <<stream, cleanupStream, gumPending, micStream>>
  /\ UNCHANGED <<currentStep, isSubmitting, values, errors, photos, video, audio,
                 files, pending, inflight, route, edits>>
  /\ UNCHANGED <<rvars, svars, uvars, mvars, tvars>>

\* toggleCamera: facingMode changes, so the effect's cleanup runs with the
\* stream of its closure and the effect runs again, closing over the
\* stream of this render
ToggleCamera ==
  /\ Mounted
  /\ showCamera # "none"
  /\ stream # 0
  /\ StreamBudget
  /\ camStreams' = StopTracks(camStreams, cleanupStream)
  /\ cleanupStream' = stream
  /\ gumPending' = gumPending + 1
  /\ emitted' = << >>
  /\ last' = Ran("toggleCamera", currentStep, TRUE)
  /\ UNCHANGED <<stream, gumOrphan, micStream>>
  /\ UNCHANGED <<currentStep, isSubmitting, values, errors, photos, video, audio,
                 files, pending, inflight, route, edits>>
  /\ UNCHANGED <<rvars, svars, uvars, mvars, tvars>>

\* AudioRecorder.startRecording after `await getUserMedia({ audio: true })`
AudioRecorderStart ==
  /\ Mounted
  /\ currentStep = 4
  /\ showCamera = "none"
  /\ micStream # "live"
  /\ micStream' = "live"
  /\ emitted' = << >>
  /\ last' = Ran("AudioRecorder.startRecording", currentStep, TRUE)
  /\ UNCHANGED <<camStreams, stream, cleanupStream, gumPending, gumOrphan>>
  /\ UNCHANGED <<currentStep, isSubmitting, values, errors, photos, video, audio,
                 files, pending, inflight, route, edits>>
  /\ UNCHANGED <<rvars, svars, uvars, mvars, tvars>>

\* saveDraft that stores the fields of the current step only
SaveDraft_CurrentStep ==
  /\ Mounted
  /\ showCamera = "none"
  /\ ~isSubmitting
  /\ draft' = << [k \in EditableAt(currentStep, values) |-> values[k]] >>
  /\ emitted' = << "Draft Saved" >>
  /\ last' = Ran("saveDraft", currentStep, TRUE)
  /\ UNCHANGED <<currentStep, isSubmitting, values, errors, photos, video, audio,
                 files, pending, inflight, route, edits, showCamera, captures>>
  /\ UNCHANGED <<cvars, rvars, svars, uvars, tvars>>

\* IssueForm.saveDraft
SaveDraft ==
  /\ Mounted
  /\ showCamera = "none"
  /\ ~isSubmitting
  /\ draft' = << JSONStringify(values) >>
  /\ emitted' = << "Draft Saved" >>
  /\ last' = Ran("saveDraft", currentStep, TRUE)
  /\ UNCHANGED <<currentStep, isSubmitting, values, errors, photos, video, audio,
                 files, pending, inflight, route, edits, showCamera, captures>>
  /\ UNCHANGED <<cvars, rvars, svars, uvars, tvars>>

(***************************************************************************)
(* Dictation for the title field (SpeechToText.tsx, ReviewSummary.tsx).    *)
(***************************************************************************)
\* the errors the recognizer reports in the runs explored
RecognitionErrors ==
  {"not-allowed", "permission-denied", "aborted", "no-speech"}

\* what the recognizer hears in the runs explored
RecognitionResults ==
  {[transcript |-> S_a, isFinal |-> TRUE],
   [transcript |-> S_a, isFinal |-> FALSE],
   [transcript |-> S_blank, isFinal |-> FALSE]}

\* recognition.start(): it starts an idle recognizer and throws
\* InvalidStateError on a started one; after an error event and before the
\* end event browsers differ
StartOutcomes(rec) ==
  CASE rec = "idle" -> {"running"}
    [] rec = "errored" -> {"running", "throws"}
    [] OTHER -> {"throws"}

\* recognition.stop()
stop(rec) == IF rec = "running" THEN "stopping" ELSE rec

\* an onerror that never enters the error state
SetsHasError_Never(error) == FALSE

\* the branches of onerror that call setHasError(true)
SetsHasError(error) == error \in {"not-allowed", "permission-denied", "aborted"}

\* isListening and hasError as the render of the mount effect saw them: the
\* onend handler is created once and keeps them
onendClosure == [isListening |-> FALSE, hasError |-> FALSE]

\* the adapter is rendered with the title field at step 1
AtTitle == Mounted /\ currentStep = 1

\* toggleListening from the Dictate / Stop button, which is rendered when
\* hasError is false, with the isListening effect that follows
ToggleListening ==
  /\ AtTitle
  /\ ~hasError
  /\ IF ~isListening
     THEN \E outcome \in StartOutcomes(recognition) :
            IF outcome = "throws"
            THEN /\ isListening' = FALSE
                 /\ recognition' = stop(recognition)
                 /\ emitted' = << "Speech recognition error" >>
            ELSE /\ isListening' = TRUE
                 /\ recognition' = "running"
                 /\ emitted' = << >>
     ELSE /\ isListening' = FALSE
          /\ recognition' = stop(recognition)
          /\ emitted' = << >>
  /\ hasError' = FALSE
  /\ last' = Ran("toggleListening", currentStep, TRUE)
  /\ UNCHANGED <<currentStep, isSubmitting, values, errors, photos, video, audio,
                 files, pending, inflight, route, edits, transcript, dictated>>
  /\ UNCHANGED <<cvars, rvars, svars, uvars, mvars>>

\* the Retry button, which is rendered when hasError is true
RetryClick ==
  /\ AtTitle
  /\ hasError
  /\ hasError' = FALSE
  /\ emitted' = << "Retry microphone access" >>
  /\ last' = Ran("retry", currentStep, TRUE)
  /\ UNCHANGED <<currentStep, isSubmitting, values, errors, photos, video, audio,
                 files, pending, inflight, route, edits, isListening, transcript,
                 dictated, recognition>>
  /\ UNCHANGED <<cvars, rvars, svars, uvars, mvars>>

\* recognition.onerror, with the isListening effect that follows
RecognitionError(error) ==
  /\ AtTitle
  /\ recognition = "running"
  /\ hasError' = (hasError \/ SetsHasError(error))
  /\ isListening' = FALSE
  /\ recognition' = "errored"
  /\ emitted' = IF error \in {"not-allowed", "permission-denied"}
                THEN << "Microphone access denied" >>
                ELSE << >>
  /\ last' = Ran("onerror", currentStep, FALSE)
  /\ UNCHANGED <<currentStep, isSubmitting, values, errors, photos, video, audio,
                 files, pending, inflight, route, edits, transcript, dictated>>
  /\ UNCHANGED <<cvars, rvars, svars, uvars, mvars>>

\* recognition.onend
RecognitionEnd ==
  /\ AtTitle
  /\ recognition \in {"running", "stopping", "errored"}
  /\ IF onendClosure.isListening /\ ~onendClosure.hasError
     THEN /\ recognition' = "running"
          /\ isListening' = isListening
     ELSE /\ recognition' = "idle"
          /\ isListening' = FALSE
  /\ emitted' = << >>
  /\ last' = Ran("onend", currentStep, TRUE)
  /\ UNCHANGED <<currentStep, isSubmitting, values, errors, photos, video, audio,
                 files, pending, inflight, route, edits, hasError, transcript,
                 dictated>>
  /\ UNCHANGED <<cvars, rvars, svars, uvars, mvars>>

\* recognition.onresult
RecognitionResult(result) ==
  /\ AtTitle
  /\ recognition = "running"
  /\ edits < MaxEdits
  /\ LET finalTranscript ==
           IF result.isFinal THEN result.transcript \o << " " >> ELSE S_empty
         interimTranscript ==
           IF result.isFinal THEN S_empty ELSE result.transcript
         transcriptText ==
           IF finalTranscript # S_empty THEN finalTranscript ELSE interimTranscript
     IN  /\ transcript' = transcriptText
         /\ dictated' = IF Trim(transcriptText) # S_empty
                        THEN Append(dictated, transcriptText)
                        ELSE dictated
  /\ edits' = edits + 1
  /\ emitted' = << >>
  /\ last' = Ran("onresult", currentStep, TRUE)
  /\ UNCHANGED <<currentStep, isSubmitting, values, errors, photos, video, audio,
                 files, pending, inflight, route, isListening, hasError,
                 recognition>>
  /\ UNCHANGED <<cvars, rvars, svars, uvars, mvars>>

\* the setTimeout callback: form.setValue('title', transcript, {shouldValidate: true})
TranscriptDelivered ==
  /\ AtTitle
  /\ dictated # << >>
  /\ LET v == JStr(Head(dictated))
     IN  /\ values' = [values EXCEPT !["title"] = v]
         /\ errors' = (errors \ {"title"}) \cup
                      (issueFormSchemaErrors([values EXCEPT !["title"] = v])
                         \cap {"title"})
  /\ dictated' = Tail(dictated)
  /\ emitted' = << >>
  /\ last' = Ran("onTranscriptReceived", currentStep, TRUE)
  /\ UNCHANGED <<currentStep, isSubmitting, photos, video, audio, files,
                 pending, inflight, route, edits, isListening, hasError,
                 transcript, recognition>>
  /\ UNCHANGED <<cvars, rvars, svars, uvars, mvars>>

\* toggleListening of the kept SpeechToText with its isListening effect:
\* start() throws on a recognizer that was started, and the catch clears
\* isListening
SlotToggleListening ==
  /\ Mounted
  /\ fieldId # "none"
  /\ IF ~slotListening
     THEN IF refStarted
          THEN /\ UNCHANGED <<slotListening, refStarted>>
               /\ emitted' = << "Speech recognition error" >>
          ELSE /\ slotListening' = TRUE
               /\ refStarted' = TRUE
               /\ emitted' = << >>
     ELSE /\ slotListening' = FALSE
          /\ UNCHANGED refStarted
          /\ emitted' = << >>
  /\ last' = Ran("toggleListening", currentStep, TRUE)
  /\ UNCHANGED <<currentStep, isSubmitting, values, errors, photos, video, audio,
                 files, pending, inflight, route, edits, fieldId, staleNames,
                 timeouts>>
  /\ UNCHANGED <<cvars, svars, uvars, mvars, tvars>>

\* the guard of onresult, with the fieldId of the effect run that created
\* the handler: recognitionRef.current && recognitionRef.current.name === fieldId
ResultGuard(name, isCurrent) == fieldId # "none" /\ fieldId = name

\* onresult of a recognizer this component created: the one recognitionRef
\* holds (isCurrent) or one its cleanup dropped
SlotRecognitionResult(name, isCurrent, result) ==
  /\ Mounted
  /\ edits < MaxEdits
  /\ IF isCurrent
     THEN fieldId = name /\ refStarted
     ELSE name \in staleNames
  /\ LET transcriptText ==
           IF result.isFinal THEN result.transcript \o << " " >>
           ELSE result.transcript
         delivered == ResultGuard(name, isCurrent) /\ Trim(transcriptText) # S_empty
     IN  /\ timeouts' = IF delivered
                        THEN Append(timeouts, [field |-> AdapterField(name),
                                               transcript |-> transcriptText])
                        ELSE timeouts
         /\ last' = Ran(IF isCurrent THEN "onresult" ELSE "stale onresult",
                        currentStep, delivered)
  /\ edits' = edits + 1
  /\ emitted' = << >>
  /\ UNCHANGED <<currentStep, isSubmitting, values, errors, photos, video, audio,
                 files, pending, inflight, route, fieldId, refStarted,
                 slotListening, staleNames>>
  /\ UNCHANGED <<cvars, svars, uvars, mvars, tvars>>

\* the setTimeout callback: form.setValue(field, transcript, {shouldValidate: true})
TimeoutFires ==
  /\ timeouts # << >>
  /\ LET k == Head(timeouts).field
         v == JStr(Head(timeouts).transcript)
     IN  /\ values' = [values EXCEPT ![k] = v]
         /\ errors' = (errors \ {k}) \cup
                      (issueFormSchemaErrors([values EXCEPT ![k] = v]) \cap {k})
  /\ timeouts' = Tail(timeouts)
  /\ emitted' = << >>
  /\ last' = Ran("onTranscriptReceived", currentStep, TRUE)
  /\ UNCHANGED <<currentStep, isSubmitting, photos, video, audio, files,
                 pending, inflight, route, edits, fieldId, refStarted,
                 slotListening, staleNames>>
  /\ UNCHANGED <<cvars, svars, uvars, mvars, tvars>>

(***************************************************************************)
(* The backend: upload filter, routes and MemStorage (server/routes.ts).   *)
(***************************************************************************)
\* requests received per run
MaxRequests == 2

\* String.prototype.startsWith
StartsWith(s, prefix) ==
  Len(s) >= Len(prefix) /\ SubSeq(s, 1, Len(prefix)) = prefix

\* the validTypes list of the multer fileFilter
validTypes ==
  {<< "i", "m", "a", "g", "e", "/", "j", "p", "e", "g" >>,
   << "i", "m", "a", "g", "e", "/", "p", "n", "g" >>,
   << "i", "m", "a", "g", "e", "/", "g", "i", "f" >>,
   << "v", "i", "d", "e", "o", "/", "m", "p", "4" >>,
   << "v", "i", "d", "e", "o", "/", "w", "e", "b", "m" >>,
   << "v", "i", "d", "e", "o", "/", "q", "u", "i", "c", "k", "t", "i", "m", "e" >>,
   << "a", "u", "d", "i", "o", "/", "m", "p", "e", "g" >>,
   << "a", "u", "d", "i", "o", "/", "w", "a", "v" >>,
   << "a", "u", "d", "i", "o", "/", "o", "g", "g" >>,
   << "a", "p", "p", "l", "i", "c", "a", "t", "i", "o", "n", "/", "p", "d", "f" >>,
   << "t", "e", "x", "t", "/", "p", "l", "a", "i", "n" >>,
   << "t", "e", "x", "t", "/", "c", "s", "v" >>,
   << "a", "p", "p", "l", "i", "c", "a", "t", "i", "o", "n", "/", "z", "i", "p" >>,
   << "a", "p", "p", "l", "i", "c", "a", "t", "i", "o", "n", "/", "x", "-", "z", "i", "p", "-", "c", "o", "m", "p", "r", "e", "s", "s", "e", "d" >>}

\* limits.fileSize of the multer configuration
fileSizeLimit == 100 * MB

\* multer accepts the upload when every file passes the filter and the limit
UploadAccepted(fs) ==
  \A i \in DOMAIN fs : fs[i].type \in validTypes /\ fs[i].size <= fileSizeLimit

\* req.files as multer's disk storage leaves them; a path is unique per
\* request and position
Uploaded(fs, n) ==
  [i \in DOMAIN fs |->
     [originalname |-> fs[i].name, mimetype |-> fs[i].type, size |-> fs[i].size,
      path |-> <<n, i>>]]

Paths(uploaded) == {uploaded[i].path : i \in DOMAIN uploaded}

\* a classification that has no branch for video/
MediaTypeOf_NoVideo(mimetype) ==
  IF StartsWith(mimetype, << "i", "m", "a", "g", "e", "/" >>) THEN "photo"
  ELSE IF StartsWith(mimetype, << "a", "u", "d", "i", "o", "/" >>) THEN "audio"
  ELSE "file"

\* the media type the POST handler derives from the MIME type
MediaTypeOf(mimetype) ==
  IF StartsWith(mimetype, << "i", "m", "a", "g", "e", "/" >>) THEN "photo"
  ELSE IF StartsWith(mimetype, << "v", "i", "d", "e", "o", "/" >>) THEN "video"
  ELSE IF StartsWith(mimetype, << "a", "u", "d", "i", "o", "/" >>) THEN "audio"
  ELSE "file"

\* zod's object parse keeps the keys of the schema and strips the others;
\* an absent optional key stays absent
validatedIssueData(obj) ==
  [k \in {c \in InsertColumns : c \in DOMAIN obj} |-> obj[k]]

\* a counter that is read and not incremented
PostIncrement_Stuck(counter) == counter

\* `const id = this.currentXId++`: the counter after the statement
PostIncrement(counter) == counter + 1

\* MemStorage.createUser: the record it stores for id
NewUser(id, insertUser) ==
  [id |-> id, username |-> insertUser.username, password |-> insertUser.password]

\* MemStorage.createIssue: the record it stores for id
NewIssue(id, insertIssue) ==
  [id |-> id, data |-> insertIssue, status |-> "submitted", jiraTicketId |-> << >>]
  \* jiraTicketId: << >> is null, << t >> is the ticket id t

\* createMedia that stores the record's own id as the owner
NewMedia_OwnIdAsOwner(id, issueId, file) ==
  [id |-> id, issueId |-> id, type |-> MediaTypeOf(file.mimetype),
   filename |-> file.originalname, filePath |-> file.path,
   mimeType |-> file.mimetype, fileSize |-> file.size, transcription |-> "null"]

\* MemStorage.createMedia: the record it stores for id
NewMedia(id, issueId, file) ==
  [id |-> id, issueId |-> issueId, type |-> MediaTypeOf(file.mimetype),
   filename |-> file.originalname, filePath |-> file.path,
   mimeType |-> file.mimetype, fileSize |-> file.size, transcription |-> "null"]

\* Map.get on the issues map: the entries with that key (none or one)
getIssue(id) ==
  IF id.nan THEN << >>
  ELSE SelectSeq(issues, LAMBDA issue : issue.id = id.n)

\* MemStorage.getMediaForIssue: the map's values in insertion order, filtered
getMediaForIssue(id) ==
  IF id.nan THEN << >>
  ELSE SelectSeq(medias, LAMBDA media : media.issueId = id.n)

\* updateJiraTicketId that stores the ticket id and leaves the status
updateJiraTicketId_KeepsStatus(issue, jiraTicketId) ==
  [issue EXCEPT !.jiraTicketId = << jiraTicketId >>]

\* MemStorage.updateJiraTicketId: the stored record with the ticket id and
\* the status "processed"
updateJiraTicketId(issue, jiraTicketId) ==
  [issue EXCEPT !.jiraTicketId = << jiraTicketId >>, !.status = "processed"]

IsDigit(c) == c \in {"0", "1", "2", "3", "4", "5", "6", "7", "8", "9"}

DigitValue(c) ==
  CASE c = "0" -> 0 [] c = "1" -> 1 [] c = "2" -> 2 [] c = "3" -> 3 [] c = "4" -> 4
    [] c = "5" -> 5 [] c = "6" -> 6 [] c = "7" -> 7 [] c = "8" -> 8 [] c = "9" -> 9

\* the value of the longest prefix of decimal digits of s, continuing from acc
RECURSIVE DigitsPrefix(_, _)
DigitsPrefix(s, acc) ==
  IF s # << >> /\ IsDigit(Head(s))
  THEN DigitsPrefix(Tail(s), 10 * acc + DigitValue(Head(s)))
  ELSE acc

\* parseInt(s): leading white space is skipped, a sign is read, then the
\* longest prefix of digits is converted; NaN when there is no digit
parseInt(s) ==
  LET t == TrimStart(s)
      negative == t # << >> /\ Head(t) = "-"
      u == IF t # << >> /\ Head(t) \in {"-", "+"} THEN Tail(t) ELSE t
  IN  IF u = << >> \/ ~IsDigit(Head(u))
      THEN [nan |-> TRUE, n |-> 0]
      ELSE [nan |-> FALSE,
            n |-> IF negative THEN 0 - DigitsPrefix(u, 0) ELSE DigitsPrefix(u, 0)]

(***************************************************************************)
(* Requests.                                                               *)
(***************************************************************************)
Without(obj, k) == [x \in DOMAIN obj \ {k} |-> obj[x]]
With(obj, k, v) == [x \in DOMAIN obj \cup {k} |-> IF x = k THEN v ELSE obj[x]]

\* the form values of a completely filled wizard
FilledValues ==
  [k \in TextFields \cup {"acceptTerms"} |->
     CASE k = "acceptTerms" -> JBool(TRUE)
       [] k = "reportedBy" -> JStr(S_ab)
       [] k = "frequency" -> JStr(S_always)
       [] OTHER -> JStr(S_a)]

\* the columns the requests of the model vary: one required, one optional
ProbedFields == {"title", "customFrequencyDescription"}

Payloads ==
  {FilledValues}
  \cup {Without(FilledValues, k) : k \in ProbedFields}
  \cup {With(FilledValues, "title", v) : v \in {JStr(S_empty), JNull, JNumber}}
  \cup {With(FilledValues, "reportedBy", JStr(S_a))}

N_exe == << "x", ".", "e", "x", "e" >>
T_exe == << "a", "p", "p", "l", "i", "c", "a", "t", "i", "o", "n", "/", "x", "-", "e", "x", "e" >>
ExeA == File(N_exe, T_exe, 1)

UploadLists ==
  {<< >>, << PhotoA >>, << DocA, PhotoA >>, << ExeA >>}

N_song == << "s", ".", "m", "p", "3" >>
T_mpeg == << "a", "u", "d", "i", "o", "/", "m", "p", "e", "g" >>
SongA == File(N_song, T_mpeg, 1)

\* an upload with a video and an audio file
MixedUpload == << ClipA, SongA >>

IdChars == {"1", "2", "a"}
IdParams == {<< c >> : c \in IdChars} \cup {<< c, d >> : c \in IdChars, d \in {"a"}}

Request(method, json, issueData, fs, id) ==
  [method |-> method, json |-> json, issueData |-> issueData, files |-> fs, id |-> id]

PostRequests ==
  {Request("POST", TRUE, d, fs, << >>) : d \in Payloads, fs \in UploadLists}
  \cup {Request("POST", FALSE, << >>, fs, << >>) : fs \in {<< >>, << PhotoA >>}}
  \cup {Request("POST", TRUE, FilledValues, MixedUpload, << >>)}

Respond(req, status, issue, media, ticketId, unlinked) ==
  [req |-> req, status |-> status, issue |-> issue, media |-> media,
   ticketId |-> ticketId, unlinked |-> unlinked]

(***************************************************************************)
(* Backend actions.  A handler is entered from the event loop; an await of *)
(* an already settled promise resumes it before the event loop runs again. *)
(***************************************************************************)
\* SettlesAfterIO for storage methods that would wait for a database
SettlesAfterIO_Always(pc) == TRUE

\* whether the promise awaited before the continuation at pc settles only
\* after I/O: createIssue, createMedia, createJiraTicket and
\* updateJiraTicketId are async functions that await nothing
SettlesAfterIO(pc) == FALSE

\* the event loop dispatches a request when no continuation is ready to run
CanReceive ==
  /\ served < MaxRequests
  /\ \A i \in DOMAIN handlers : SettlesAfterIO(handlers[i].pc)

\* POST /api/issues: multer, then the handler up to `await storage.createIssue`
\* or through its catch block
PostIssue(req) ==
  /\ CanReceive
  /\ req \in PostRequests
  /\ served' = served + 1
  /\ LET uploaded == Uploaded(req.files, served + 1)
     IN  IF ~UploadAccepted(req.files)
         THEN \* multer passes the error on; the handler does not run
              /\ response' = Respond(req, 500, << >>, << >>, << >>, {})
              /\ UNCHANGED <<issues, medias, currentIssueId, currentMediaId,
                             disk, handlers>>
         ELSE IF ~req.json
         THEN \* JSON.parse throws; catch: unlink, not a ZodError
              /\ response' = Respond(req, 500, << >>, << >>, << >>, Paths(uploaded))
              /\ UNCHANGED <<issues, medias, currentIssueId, currentMediaId,
                             disk, handlers>>
         ELSE IF insertIssueSchemaErrors(req.issueData) # {}
         THEN \* insertIssueSchema.parse throws; catch: unlink, ZodError
              /\ response' = Respond(req, 400, << >>, << >>, << >>, Paths(uploaded))
              /\ UNCHANGED <<issues, medias, currentIssueId, currentMediaId,
                             disk, handlers>>
         ELSE /\ issues' = Append(issues,
                    NewIssue(currentIssueId, validatedIssueData(req.issueData)))
              /\ currentIssueId' = PostIncrement(currentIssueId)
              /\ disk' = disk \cup Paths(uploaded)
              /\ handlers' = Append(handlers,
                    [pc |-> IF Len(uploaded) > 0 THEN "media" ELSE "ticket",
                     req |-> req, files |-> uploaded, issueId |-> currentIssueId,
                     next |-> 1, jiraTicketId |-> << >>, updatedIssue |-> << >>])
              /\ UNCHANGED <<medias, currentMediaId, response>>
  /\ UNCHANGED <<cvars, rvars, uvars, wvars, mvars, tvars>>

\* one pass of the loop over req.files, up to `await storage.createMedia`
PostCreateMedia(i) ==
  /\ i \in DOMAIN handlers
  /\ handlers[i].pc = "media"
  /\ LET h == handlers[i]
     IN  /\ medias' = Append(medias, NewMedia(currentMediaId, h.issueId, h.files[h.next]))
         /\ currentMediaId' = PostIncrement(currentMediaId)
         /\ handlers' = [handlers EXCEPT ![i] =
              [h EXCEPT !.next = h.next + 1,
                        !.pc = IF h.next < Len(h.files) THEN "media" ELSE "ticket"]]
  /\ UNCHANGED <<issues, currentIssueId, disk, response, served>>
  /\ UNCHANGED <<cvars, rvars, uvars, wvars, mvars, tvars>>

\* up to `await createJiraTicket(issue)`; Math.random() returns k / RandomSteps
PostCreateJiraTicket(i, k) ==
  /\ i \in DOMAIN handlers
  /\ handlers[i].pc = "ticket"
  /\ k \in 0 .. RandomSteps - 1
  /\ handlers' = [handlers EXCEPT ![i] =
       [handlers[i] EXCEPT !.jiraTicketId = createJiraTicket(k), !.pc = "update"]]
  /\ UNCHANGED <<issues, medias, currentIssueId, currentMediaId, disk, response, served>>
  /\ UNCHANGED <<cvars, rvars, uvars, wvars, mvars, tvars>>

\* up to `await storage.updateJiraTicketId(issue.id, jiraTicketId)`
PostUpdateJiraTicketId(i) ==
  /\ i \in DOMAIN handlers
  /\ handlers[i].pc = "update"
  /\ LET h == handlers[i]
         at == {j \in DOMAIN issues : issues[j].id = h.issueId}
     IN  IF at = {}
         THEN /\ handlers' = [handlers EXCEPT ![i] = [h EXCEPT !.pc = "respond"]]
              /\ UNCHANGED issues
         ELSE LET j == CHOOSE j \in at : TRUE
                  updated == updateJiraTicketId(issues[j], h.jiraTicketId)
              IN  /\ issues' = [issues EXCEPT ![j] = updated]
                  /\ handlers' = [handlers EXCEPT ![i] =
                       [h EXCEPT !.pc = "respond", !.updatedIssue = << updated >>]]
  /\ UNCHANGED <<medias, currentIssueId, currentMediaId, disk, response, served>>
  /\ UNCHANGED <<cvars, rvars, uvars, wvars, mvars, tvars>>

\* res.status(201).json({issue: updatedIssue, message, ticketId: jiraTicketId})
PostRespond(i) ==
  /\ i \in DOMAIN handlers
  /\ handlers[i].pc = "respond"
  /\ LET h == handlers[i]
     IN  response' = Respond(h.req, 201, h.updatedIssue, << >>, h.jiraTicketId, {})
  /\ handlers' = RemoveAt(handlers, i)
  /\ UNCHANGED <<issues, medias, currentIssueId, currentMediaId, disk, served>>
  /\ UNCHANGED <<cvars, rvars, uvars, wvars, mvars, tvars>>

\* users created per run
MaxUsers == 2

\* the users a caller of the storage creates in the runs explored
InsertUsers ==
  {[username |-> S_a, password |-> S_a], [username |-> S_ab, password |-> S_a]}

\* MemStorage.createUser, called on the exported storage object
CreateUser(insertUser) ==
  /\ Len(users) < MaxUsers
  /\ insertUser \in InsertUsers
  /\ users' = Append(users, NewUser(currentUserId, insertUser))
  /\ currentUserId' = PostIncrement(currentUserId)
  /\ UNCHANGED <<cvars, rvars, svars, wvars, mvars, tvars>>

\* GET /api/issues/:id
GetIssue(idParam) ==
  /\ CanReceive
  /\ idParam \in IdParams
  /\ served' = served + 1
  /\ LET id == parseInt(idParam)
         issue == getIssue(id)
         req == Request("GET", FALSE, << >>, << >>, idParam)
     IN  response' =
           IF issue = << >>
           THEN Respond(req, 404, << >>, << >>, << >>, {})
           ELSE Respond(req, 200, issue, getMediaForIssue(id), << >>, {})
  /\ UNCHANGED <<issues, medias, currentIssueId, currentMediaId, disk, handlers>>
  /\ UNCHANGED <<cvars, rvars, uvars, wvars, mvars, tvars>>

\* GET /api/issues
GetIssues ==
  /\ CanReceive
  /\ served' = served + 1
  /\ response' = Respond(Request("LIST", FALSE, << >>, << >>, << >>), 200, issues,
                         << >>, << >>, {})
  /\ UNCHANGED <<issues, medias, currentIssueId, currentMediaId, disk, handlers>>
  /\ UNCHANGED <<cvars, rvars, uvars, wvars, mvars, tvars>>

(***************************************************************************)
(* Specifications.                                                         *)
(***************************************************************************)
Init ==
  /\ currentStep = 1
  /\ isSubmitting = FALSE
  /\ values = defaultValues
  /\ errors = {}
  /\ photos = << >>
  /\ video = << >>
  /\ audio = << >>
  /\ files = << >>
  /\ pending = << >>
  /\ inflight = << >>
  /\ route = [path |-> "form", ticketId |-> << >>]
  /\ emitted = << >>
  /\ last = Ran("mount", 1, TRUE)
  /\ edits = 0
  /\ showCamera = "none"
  /\ captures = << >>
  /\ draft = << >>
  /\ isListening = FALSE
  /\ hasError = FALSE
  /\ transcript = S_empty
  /\ dictated = << >>
  /\ recognition = "idle"
  /\ fieldId = AdapterFieldId(currentStep)
  /\ refStarted = FALSE
  /\ slotListening = FALSE
  /\ staleNames = {}
  /\ timeouts = << >>
  /\ camStreams = << >>
  /\ stream = 0
  /\ cleanupStream = 0
  /\ gumPending = 0
  /\ gumOrphan = 0
  /\ micStream = "none"
  /\ issues = << >>
  /\ medias = << >>
  /\ currentIssueId = 1
  /\ currentMediaId = 1
  /\ disk = {}
  /\ handlers = << >>
  /\ response = Respond(Request("none", FALSE, << >>, << >>, << >>), 0, << >>,
                        << >>, << >>, {})
  /\ served = 0
  /\ users = << >>
  /\ currentUserId = 1

Next ==
  \/ \E k \in FormFields, v \in UNION {Inputs(f) : f \in FormFields} : EditField(k, v)
  \/ GoToNextStep
  \/ ResolveTrigger
  \/ GoToPreviousStep
  \/ \E i \in DOMAIN inflight, r \in Responses : FetchSettled(i, r)
  \/ \E b \in PhotoBatches : MediaUploadFileChange("photo", b)
  \/ \E b \in VideoBatches : MediaUploadFileChange("video", b)
  \/ AudioRecorderStop
  \/ \E b \in FileBatches : FileUploadFileChange(b)

ServerNext ==
  \/ \E req \in PostRequests : PostIssue(req)
  \/ \E i \in DOMAIN handlers : PostCreateMedia(i)
  \/ \E i \in DOMAIN handlers, k \in 0 .. RandomSteps - 1 : PostCreateJiraTicket(i, k)
  \/ \E i \in DOMAIN handlers : PostUpdateJiraTicketId(i)
  \/ \E i \in DOMAIN handlers : PostRespond(i)
  \/ \E idParam \in IdParams : GetIssue(idParam)
  \/ GetIssues

\* the wizard, with the backend seen through its responses
Spec == Init /\ [][Next]_vars

\* the backend, with requests from any client
SpecServer == Init /\ [][ServerNext]_vars

\* the requests that reach createIssue, with none, one and two files
StorageRequests ==
  {Request("POST", TRUE, FilledValues, fs, << >>) :
     fs \in {<< >>, << PhotoA >>, << DocA, PhotoA >>}}

StorageNext ==
  \/ \E req \in StorageRequests : PostIssue(req)
  \/ \E i \in DOMAIN handlers : PostCreateMedia(i)
  \/ \E i \in DOMAIN handlers, k \in 0 .. RandomSteps - 1 : PostCreateJiraTicket(i, k)
  \/ \E i \in DOMAIN handlers : PostUpdateJiraTicketId(i)
  \/ \E i \in DOMAIN handlers : PostRespond(i)
  \/ \E insertUser \in InsertUsers : CreateUser(insertUser)

\* the store, used by the routes and by any other caller of its methods
SpecStorage == Init /\ [][StorageNext]_vars

\* what a user picks, drops and captures at step 4
PhotoPicks == {<< PhotoA >>, << PhotoB, PhotoA >>, << PhotoA, PhotoBig >>}
VideoPicks == {<< ClipA >>, << ClipBig >>}
FilePicks == {<< DocA >>, << DocA, DocBig >>}
FileDrops == {<< DocA >>, << ExeA >>, << DocA, DocBig >>}
PhotoShotSizes == {1, 10 * MB + 1}
ClipShotSizes == {1, 100 * MB + 1}

\* buckets a user may already have filled when the run starts
PhotosAtStart == {<< >>, Copies(PhotoA, 9)}
FilesAtStart == {<< >>, Copies(DocA, 4)}

\* the wizard with a completely filled draft, standing at one of the steps
Resumed(steps) ==
  /\ currentStep \in steps
  /\ isSubmitting = FALSE
  /\ values = FilledValues
  /\ errors = {}
  /\ photos \in PhotosAtStart
  /\ video = << >>
  /\ audio = << >>
  /\ files \in FilesAtStart
  /\ pending = << >>
  /\ inflight = << >>
  /\ route = [path |-> "form", ticketId |-> << >>]
  /\ emitted = << >>
  /\ last = Ran("resume", currentStep, TRUE)
  /\ edits = 0
  /\ showCamera = "none"
  /\ captures = << >>
  /\ draft = << >>
  /\ isListening = FALSE
  /\ hasError = FALSE
  /\ transcript = S_empty
  /\ dictated = << >>
  /\ recognition = "idle"
  /\ fieldId = AdapterFieldId(currentStep)
  /\ refStarted = FALSE
  /\ slotListening = FALSE
  /\ staleNames = {}
  /\ timeouts = << >>
  /\ camStreams = << >>
  /\ stream = 0
  /\ cleanupStream = 0
  /\ gumPending = 0
  /\ gumOrphan = 0
  /\ micStream = "none"
  /\ issues = << >>
  /\ medias = << >>
  /\ currentIssueId = 1
  /\ currentMediaId = 1
  /\ disk = {}
  /\ handlers = << >>
  /\ response = Respond(Request("none", FALSE, << >>, << >>, << >>), 0, << >>,
                        << >>, << >>, {})
  /\ served = 0
  /\ users = << >>
  /\ currentUserId = 1

\* the wizard at step 4 with a completely filled draft
InitMedia == Resumed({4})

\* the wizard at any step with a completely filled draft
InitDraft == Resumed(1 .. totalSteps)

MediaNext ==
  \/ \E b \in PhotoPicks : MediaUploadFileChange("photo", b)
  \/ \E b \in VideoPicks : MediaUploadFileChange("video", b)
  \/ \E type \in {"photo", "video"}, index \in 1 .. 10 : MediaUploadRemove(type, index)
  \/ \E type \in {"photo", "video"} : UseCamera(type)
  \/ CloseCamera
  \/ \E sz \in PhotoShotSizes : TakePhoto(sz)
  \/ StartRecording
  \/ \E sz \in ClipShotSizes : StopRecording(sz)
  \/ CaptureDelivered
  \/ CameraStreamAcquired
  \/ AudioRecorderStop
  \/ AudioRecorderDelete
  \/ \E b \in FilePicks : FileUploadFileChange(b)
  \/ \E b \in FileDrops : FileUploadDrop(b)
  \/ \E index \in 1 .. 5 : FileUploadRemove(index)

\* the media buckets of step 4 under every operation on them
SpecMedia == InitMedia /\ [][MediaNext]_vars

\* the wizard resumed at step 4 and what it submits
SpecSubmit == InitMedia /\ [][Next]_vars

DraftNext ==
  \/ \E k \in FormFields, v \in UNION {Inputs(f) : f \in FormFields} : EditField(k, v)
  \/ GoToPreviousStep
  \/ \E b \in PhotoBatches : MediaUploadFileChange("photo", b)
  \/ \E b \in VideoBatches : MediaUploadFileChange("video", b)
  \/ AudioRecorderStop
  \/ \E b \in FileBatches : FileUploadFileChange(b)
  \/ SaveDraft

\* the draft slot, saved at any step
SpecDraft == InitDraft /\ [][DraftNext]_vars

SpeechNext ==
  \/ ToggleListening
  \/ RetryClick
  \/ \E error \in RecognitionErrors : RecognitionError(error)
  \/ RecognitionEnd
  \/ \E result \in RecognitionResults : RecognitionResult(result)
  \/ TranscriptDelivered
  \/ \E v \in Inputs("title") : EditField("title", v)

\* dictation into the title field at step 1
SpecSpeech == Init /\ [][SpeechNext]_vars

\* the wizard at step 2 with a completely filled draft and no media
InitRebind == Resumed({2}) /\ photos = << >> /\ files = << >>

RebindNext ==
  \/ GoToNextStep
  \/ ResolveTrigger
  \/ GoToPreviousStep
  \/ SlotToggleListening
  \/ \E name \in {"reproduction-steps", "reported-by"}, isCurrent \in BOOLEAN,
        result \in RecognitionResults :
        SlotRecognitionResult(name, isCurrent, result)
  \/ TimeoutFires

\* dictation through the SpeechToText kept across steps 2 and 3
SpecRebind == InitRebind /\ [][RebindNext]_vars

\* the wizard at step 4 with a completely filled draft and no media
InitStreams == Resumed({4}) /\ photos = << >> /\ files = << >>

StreamsNext ==
  \/ \E type \in {"photo", "video"} : UseCamera(type)
  \/ CameraStreamAcquired
  \/ OrphanStreamAcquired
  \/ ToggleCamera
  \/ CloseCamera
  \/ \E sz \in PhotoShotSizes : TakePhoto(sz)
  \/ StartRecording
  \/ \E sz \in ClipShotSizes : StopRecording(sz)
  \/ CaptureDelivered
  \/ AudioRecorderStart
  \/ AudioRecorderStop
  \/ GoToPreviousStep

\* the camera and the voice recorder of step 4 with their media streams
SpecStreams == InitStreams /\ [][StreamsNext]_vars

(***************************************************************************)
(* Properties of the wizard.                                               *)
(***************************************************************************)
\* the fields the specification requires at each step
RequiredAt(step) ==
  CASE step = 1 -> {"title", "description", "platform", "productCategory", "severity"}
    [] step = 2 -> {"frequency", "reproducible", "reproductionSteps", "actualBehavior"}
    [] step = 3 -> {"softwareVersion", "reportedBy"}
    [] step = 5 -> {"acceptTerms"}
    [] OTHER -> {}

\* a string of white space only (the empty string included)
Blank(s) == \A i \in DOMAIN s : s[i] = " "

\* a required field is empty or fails its format rule
Unfilled(k, v) ==
  CASE k = "acceptTerms" -> v # JBool(TRUE)
    [] k = "reportedBy" -> v.t # "string" \/ Len(v.s) < 2
    [] OTHER -> v.t # "string" \/ v.s = << >>

SomeRequiredUnfilled(step, vals) == \E k \in RequiredAt(step) : Unfilled(k, vals[k])

\* the step is the completion of a goToNextStep suspended at form.trigger
Resolving == pending # << >> /\ last'.op = "resolve" /\ pending' = Tail(pending)

\* the step is a click on Next / Submit
Clicking == last'.op \in {"goToNextStep", "trigger"} /\ edits' = edits /\ inflight' = inflight

Media == <<photos, video, audio, files>>

\* C1: for every step n and every draft, if a field required by step n is
\* empty or fails its format rule, advance() leaves the step position at n:
\* the completion of a goToNextStep called at step n with such a draft does
\* not change currentStep.
C1_AdvanceBlockedWhenRequiredUnfilled ==
  [][(Resolving /\ SomeRequiredUnfilled(Head(pending).step, Head(pending).vals))
       => currentStep' = currentStep]_vars

\* C2: with frequency "custom" and an empty or blank custom description,
\* goToNextStep at step 1 fails: the step stays 1, an error is recorded on
\* customFrequencyDescription and no validation is started; with a non-blank
\* description the pre-check lets the call through to the validation of the
\* five fields of step 1, and the step then advances when they validate.
C2_CustomFrequencyGuard ==
  [][/\ (Clicking /\ currentStep = 1 /\ values["frequency"] = JStr(S_custom))
          => IF Blank(values["customFrequencyDescription"].s)
             THEN /\ currentStep' = 1
                  /\ "customFrequencyDescription" \in errors'
                  /\ pending' = pending
                  /\ last'.ok = FALSE
             ELSE /\ Len(pending') = Len(pending) + 1
                  /\ pending'[Len(pending')].step = 1
     /\ (Resolving /\ Head(pending).step = 1
           /\ Head(pending).vals["frequency"] = JStr(S_custom)
           /\ ~Blank(Head(pending).vals["customFrequencyDescription"].s)
           /\ ~SomeRequiredUnfilled(1, Head(pending).vals))
          => currentStep' = 2]_vars

\* C2, reached: goToNextStep has just failed at step 1 on a blank custom
\* description.
C2_Witness ==
  /\ last = Ran("goToNextStep", 1, FALSE)
  /\ currentStep = 1
  /\ values["frequency"] = JStr(S_custom)
  /\ values["customFrequencyDescription"] = JStr(S_blank)
  /\ "customFrequencyDescription" \in errors

\* C3: at every step n > 1 the wizard reaches, retreat() followed at once by
\* advance() comes back to n: goToNextStep called at step n - 1 with the
\* values of the draft as they are validates and advances.
C3_RetreatThenAdvanceReturns ==
  (Mounted /\ currentStep > 1 /\ ~isSubmitting /\ pending = << >>)
    => Advances(currentStep - 1, IsValid(currentStep - 1, values))

SatisfiesSchema(d) ==
  /\ \A k \in NotNullColumns : Get(d, k).t = "string"
  /\ \A k \in NullableColumns : Get(d, k).t \in {"string", "null", "undefined"}

\* IRS- followed by exactly four decimal digits, a number in 1000..9999
IsTicketId(t) ==
  /\ Len(t) = 8
  /\ SubSeq(t, 1, 4) = << "I", "R", "S", "-" >>
  /\ \A i \in 5 .. 8 : IsDigit(t[i])
  /\ DigitsPrefix(SubSeq(t, 5, 8), 0) \in 1000 .. 9999

\* C8: the response to a POST whose issueData satisfies the schema and that
\* carries no file is 201 with a ticket id IRS-dddd, and the Issue returned
\* has status "processed" and that ticket id as jiraTicketId.
C8_ValidPostIsProcessed ==
  (/\ response.req.method = "POST"
   /\ response.req.json
   /\ SatisfiesSchema(response.req.issueData)
   /\ response.req.files = << >>)
    => /\ response.status = 201
       /\ IsTicketId(response.ticketId)
       /\ Len(response.issue) = 1
       /\ response.issue[1].status = "processed"
       /\ response.issue[1].jiraTicketId = << response.ticketId >>

\* C8, reached: a POST of a completely filled draft without files has been
\* answered with 201.
C8_Witness ==
  /\ response.req.method = "POST"
  /\ response.req.issueData = FilledValues
  /\ response.req.files = << >>
  /\ response.status = 201
  /\ Len(issues) = 1

\* a required column is absent, null, not a string, or the empty string
Lacks(d, k) == Get(d, k).t # "string" \/ Get(d, k).s = << >>

\* C9: a POST whose payload misses a required field (an empty title
\* included) creates no Issue, is answered with 400, and every file written
\* for it is unlinked: no stored Issue lacks a required field, and the
\* response to such a POST is 400 with one unlink per uploaded file.
C9_MissingFieldRejected ==
  /\ \A i \in DOMAIN issues : \A k \in NotNullColumns : ~Lacks(issues[i].data, k)
  /\ (/\ response.req.method = "POST"
      /\ response.req.json
      /\ UploadAccepted(response.req.files)
      /\ \E k \in NotNullColumns : Lacks(response.req.issueData, k))
       => /\ response.status = 400
          /\ Cardinality(response.unlinked) = Len(response.req.files)

\* a request GET /api/issues/:id is answered in this step
AnswersGet ==
  /\ served' = served + 1
  /\ handlers' = handlers
  /\ issues' = issues
  /\ response'.req.method = "GET"

\* C10: GET /api/issues/:id answers 404 when no Issue has the id of the
\* request (a non-numeric id included); otherwise it answers 200 with that
\* Issue and with all media records of the Issue, one per uploaded file and
\* in upload order.
C10_GetIssueById ==
  [][AnswersGet =>
       LET owners == {i \in DOMAIN issues : NumberToString(issues[i].id) = response'.req.id}
           media == response'.media
       IN  IF owners = {}
           THEN response'.status = 404
           ELSE /\ response'.status = 200
                /\ \E i \in owners : response'.issue = << issues[i] >>
                /\ media = SelectSeq(medias, LAMBDA m : m.issueId = response'.issue[1].id)
                /\ \A j \in DOMAIN media :
                     /\ media[j].filePath[2] = j
                     /\ media[j].filePath[1] = media[1].filePath[1]
                /\ media # << >> =>
                     Len(media) = Cardinality({q \in disk : q[1] = media[1].filePath[1]})]_vars

\* the stored Issue with the given id, as a sequence of length <= 1
Stored(iss, id) == SelectSeq(iss, LAMBDA x : x.id = id)

\* C11: every stored Issue has a null jiraTicketId exactly when its status
\* is "submitted" and a non-null one exactly when its status is
\* "processed"; no Issue leaves the store, a processed Issue stays processed
\* and keeps its ticket id, so the status changes submitted -> processed at
\* most once.
C11_TicketIffProcessed ==
  /\ [](\A i \in DOMAIN issues :
          /\ issues[i].status \in {"submitted", "processed"}
          /\ (issues[i].jiraTicketId = << >>) <=> (issues[i].status = "submitted")
          /\ (issues[i].jiraTicketId # << >>) <=> (issues[i].status = "processed"))
  /\ [][\A i \in DOMAIN issues :
          LET after == Stored(issues', issues[i].id)
          IN  /\ Len(after) = 1
              /\ issues[i].status = "processed" => after[1] = issues[i]
              /\ after[1].status # issues[i].status =>
                   (issues[i].status = "submitted" /\ after[1].status = "processed")]_vars

\* C11, reached: one Issue has been processed while a later one is still
\* submitted.
C11_Witness ==
  /\ Len(issues) = 2
  /\ issues[1].status = "processed" /\ issues[1].jiraTicketId # << >>
  /\ issues[2].status = "submitted" /\ issues[2].jiraTicketId = << >>

\* a read request (GET /api/issues or GET /api/issues/:id) is answered
AnswersRead ==
  /\ served' = served + 1
  /\ response'.req.method \in {"GET", "LIST"}
  /\ issues' = issues
  /\ medias' = medias

\* C12: while a POST handler is between createIssue and its response no
\* other request is received, so a read request never returns an Issue with
\* status "submitted" and the media it returns are complete: every file
\* written for a stored submission has its media record.
C12_ReadsSeeWholeSubmissions ==
  [][/\ handlers # << >> => (served' = served /\ Len(handlers') <= Len(handlers))
     /\ AnswersRead =>
          /\ handlers = << >>
          /\ \A i \in DOMAIN response'.issue : response'.issue[i].status = "processed"
          /\ \A q \in disk : \E j \in DOMAIN medias : medias[j].filePath = q
          /\ response'.req.method = "GET" /\ response'.status = 200 =>
               response'.media =
                 SelectSeq(medias, LAMBDA m : m.issueId = response'.issue[1].id)]_vars

\* C12, reached: a submission with two files has been stored and then read
\* back with both media records.
C12_Witness ==
  /\ response.req.method = "GET"
  /\ response.status = 200
  /\ Len(response.media) = 2
  /\ response.issue[1].status = "processed"

(***************************************************************************)
(* Properties of the submission request, the media buckets and the draft.  *)
(***************************************************************************)
\* the files of the four buckets in submission order
BucketFiles == photos \o video \o [i \in DOMAIN audio |-> audio[i].file] \o files

C14_PhotosRejectedWhole ==
  [][/\ \A b \in PhotoPicks :
          (/\ MediaUploadFileChange("photo", b)
           /\ (Len(photos) + Len(b) > 10 \/ \E i \in DOMAIN b : b[i].size > 10 * MB))
            => (photos' = photos /\ Len(emitted') = 1)
     /\ (/\ CaptureDelivered
         /\ Head(captures).type = "photo"
         /\ (Len(photos) + 1 > 10 \/ Head(captures).file.size > 10 * MB))
          => (photos' = photos /\ Len(emitted') = 1)]_vars

\* C15: when the video bucket holds a video and a video of at most 100 MB
\* captured with the camera is delivered, the bucket afterwards holds
\* exactly the captured video.
C15_CapturedVideoReplaces ==
  [][(/\ CaptureDelivered
      /\ Head(captures).type = "video"
      /\ video # << >>
      /\ Head(captures).file.size <= 100 * MB)
       => video' = << Head(captures).file >>]_vars

\* C15, reached: after one earlier operation on the video bucket a
\* recording stopped as the second operation has been delivered and is the
\* only video.
C15_Witness ==
  /\ last = Ran("MediaUpload.handleCaptureFile", 4, TRUE)
  /\ video = << ClipShot(1, 1) >>
  /\ edits = 2
  /\ photos \in PhotosAtStart
  /\ files \in FilesAtStart
  /\ audio = << >>
  /\ captures = << >>

\* C16: the photo bucket never holds more than 10 files, the video bucket
\* and the audio bucket never more than 1, the generic-file bucket never
\* more than 5, whatever browse, drop, capture, record and remove
\* operations ran.
C16_BucketsCapped ==
  /\ Len(photos) <= 10
  /\ Len(video) <= 1
  /\ Len(audio) <= 1
  /\ Len(files) <= 5

\* C16, reached: the photo bucket is full and an add to it was refused.
C16_Witness ==
  /\ Len(photos) = 10
  /\ last = Ran("MediaUpload.handleFileChange", 4, FALSE)
  /\ emitted = << "Too many files" >>

\* C17: a batch browsed or dropped into the generic file picker that would
\* bring the bucket above 5 files, or has a member above 50 MB, leaves the
\* bucket as it was and raises exactly one notification; a batch that is
\* added is therefore within both limits, and it is added whole.
C17_FileBatchRejectedWhole ==
  [][\A b \in FilePicks \cup FileDrops :
       (FileUploadFileChange(b) \/ FileUploadDrop(b)) =>
         LET fits == /\ Len(files) + Len(b) <= 5
                     /\ \A i \in DOMAIN b : b[i].size <= 50 * MB
         IN  /\ ~fits => (files' = files /\ Len(emitted') = 1)
             /\ files' # files => (fits /\ files' = files \o b)]_vars

\* C17, reached: a dropped batch with a member above 50 MB was refused with
\* one notification and the bucket is one the wizard started with.
C17_Witness ==
  /\ last = Ran("FileUpload.handleDrop", 4, FALSE)
  /\ emitted = << "File too large" >>
  /\ files \in FilesAtStart

\* String.prototype.endsWith / includes
endsWith(s, suffix) ==
  /\ Len(suffix) <= Len(s)
  /\ SubSeq(s, Len(s) - Len(suffix) + 1, Len(s)) = suffix

includes(s, ch) == \E i \in DOMAIN s : s[i] = ch

\* String.prototype.toLowerCase on the letters file names are built from
toLowerCase(s) ==
  [i \in DOMAIN s |->
     CASE s[i] = "P" -> "p" [] s[i] = "D" -> "d" [] s[i] = "F" -> "f"
       [] s[i] = "E" -> "e" [] s[i] = "X" -> "x" [] OTHER -> s[i]]

\* type.split('/')[0] followed by '/'
GroupPrefix(type) ==
  LET slashes == {i \in DOMAIN type : type[i] = "/"}
      cut == IF slashes = {} THEN Len(type)
             ELSE (CHOOSE i \in slashes : \A j \in slashes : i <= j) - 1
  IN  SubSeq(type, 1, cut) \o << "/" >>

validateFileType(file, acceptedTypes) ==
  \E type \in acceptedTypes :
    IF StartsWith(type, << "." >>)
    THEN endsWith(toLowerCase(file.name), toLowerCase(type))
    ELSE IF includes(type, "*")
    THEN StartsWith(file.type, GroupPrefix(type))
    ELSE file.type = type

\* acceptedTypes=".pdf,.txt,.log,.csv,.zip" of <FileUpload>, parsed
FileAcceptedTypes ==
  { << ".", "p", "d", "f" >>, << ".", "t", "x", "t" >>, << ".", "l", "o", "g" >>,
    << ".", "c", "s", "v" >>, << ".", "z", "i", "p" >> }

T_txt == << "t", "e", "x", "t", "/", "p", "l", "a", "i", "n" >>
T_csv == << "t", "e", "x", "t", "/", "c", "s", "v" >>
T_zip == << "a", "p", "p", "l", "i", "c", "a", "t", "i", "o", "n", "/", "z", "i", "p" >>

\* a pdf, txt, log, csv or zip by extension or by MIME type
IsDocument(file) ==
  \/ validateFileType(file, FileAcceptedTypes)
  \/ validateFileType(file, {T_pdf, T_txt, T_csv, T_zip})

\* C18: every file in the generic-file bucket is a pdf, txt, log, csv or
\* zip by extension or MIME type, and a browse or drop of a batch with a
\* member of another type leaves the bucket as it was.
C18_OnlyDocumentsInFiles ==
  /\ [](\A i \in DOMAIN files : IsDocument(files[i]))
  /\ [][\A b \in FilePicks \cup FileDrops :
          (/\ FileUploadFileChange(b) \/ FileUploadDrop(b)
           /\ \E i \in DOMAIN b : ~IsDocument(b[i]))
            => files' = files]_vars

C21_StaleResultsIgnored ==
  [][(\E name \in {"reproduction-steps", "reported-by"},
         result \in RecognitionResults :
         SlotRecognitionResult(name, FALSE, result))
       => (timeouts' = timeouts /\ values' = values)]_vars

(***************************************************************************)
(* Properties of the media streams.                                        *)
(***************************************************************************)
\* C22: while no CameraCapture is mounted every stream a CameraCapture
\* acquired has its tracks stopped, and while the AudioRecorder is not
\* mounted (the wizard is not at step 4) its stream is not live.
C22_StreamsReleased ==
  /\ showCamera = "none" => \A i \in DOMAIN camStreams : camStreams[i] = "stopped"
  /\ currentStep # 4 => micStream # "live"

(***************************************************************************)
(* Properties that relate the wizard's checks to the backend's.            *)
(***************************************************************************)
\* the validators of all five steps accept the draft
StepsAccept(d) == \A step \in 1 .. totalSteps : IsValid(step, d)

\* C23: POST /api/issues answers a draft with all fields that some step
\* validator of the wizard rejects with 400, and a draft that all step
\* validators accept with 201.
C23_ServerValidatesAsClient ==
  (/\ response.req.method = "POST"
   /\ response.req.json
   /\ UploadAccepted(response.req.files)
   /\ DOMAIN response.req.issueData = DOMAIN FilledValues)
    => /\ ~StepsAccept(response.req.issueData) => response.status = 400
       /\ StepsAccept(response.req.issueData) => response.status = 201

(***************************************************************************)
(* Properties of the store.                                                *)
(***************************************************************************)
\* C24: the issueId of every Media record is the id of an Issue in the
\* issues collection, and a step never changes or removes a Media record
\* that exists.
C24_MediaOwnedAndKept ==
  /\ [](\A j \in DOMAIN medias :
          \E i \in DOMAIN issues : issues[i].id = medias[j].issueId)
  /\ [][/\ Len(medias') >= Len(medias)
        /\ \A j \in DOMAIN medias : medias'[j] = medias[j]]_vars

\* C24, reached: two submissions with files have stored their Media
\* records, each owned by its Issue.
C24_Witness ==
  /\ Len(issues) = 2
  /\ Len(medias) >= 3
  /\ medias[1].issueId = issues[1].id
  /\ medias[Len(medias)].issueId = issues[2].id
  /\ handlers = << >>

\* the ids of a collection, kept in insertion order, start at 1 or above,
\* increase strictly and stay below the collection's counter
IdsAscend(records, counter) ==
  /\ \A i \in DOMAIN records : records[i].id >= 1 /\ records[i].id < counter
  /\ \A i, j \in DOMAIN records : i < j => records[i].id < records[j].id

\* C25: in each of the collections of Issues, Media and Users the first id
\* assigned is 1, every record's id is greater than the ids assigned before
\* it (so no two records share an id), the counter is above every id
\* assigned and never decreases (so no id is used again), and a record is
\* never dropped, whatever the interleaving of requests.
C25_IdsUniqueAndIncreasing ==
  /\ [](/\ IdsAscend(issues, currentIssueId)
        /\ IdsAscend(medias, currentMediaId)
        /\ IdsAscend(users, currentUserId)
        /\ issues # << >> => issues[1].id = 1
        /\ medias # << >> => medias[1].id = 1
        /\ users # << >> => users[1].id = 1)
  /\ [][/\ currentIssueId' >= currentIssueId
        /\ currentMediaId' >= currentMediaId
        /\ currentUserId' >= currentUserId
        /\ Len(issues') >= Len(issues)
        /\ Len(medias') >= Len(medias)
        /\ Len(users') >= Len(users)]_vars

\* C25, reached: two Issues, the Media of two submissions and two Users are
\* stored, and both handlers have answered.
C25_Witness ==
  /\ Len(issues) = 2
  /\ Len(medias) = 3
  /\ medias[1].issueId = 1
  /\ medias[3].issueId = 2
  /\ Len(users) = 2
  /\ handlers = << >>

\* the step is a goToNextStep, or its completion, that computed isValid = FALSE
FailedAdvance ==
  \/ GoToNextStep /\ last' = Ran("goToNextStep", currentStep, FALSE)
  \/ ResolveTrigger /\ last' = Ran("resolve", Head(pending).step, FALSE)

\* the step and the draft the failed goToNextStep validated
AdvanceFrom ==
  IF last'.op = "resolve" THEN [step |-> Head(pending).step, vals |-> Head(pending).vals]
  ELSE [step |-> currentStep, vals |-> values]

\* C26: a failed advance() from step n leaves the step position unchanged,
\* records a field error for every required field of step n that is empty or
\* fails its format rule, and emits exactly one "Validation Error"
\* notification; a goToNextStep that validated emits none.
C26_FailedAdvanceReportsAll ==
  [][/\ FailedAdvance
          => /\ currentStep' = currentStep
             /\ \A k \in RequiredAt(AdvanceFrom.step) :
                  Unfilled(k, AdvanceFrom.vals[k]) => k \in errors'
             /\ emitted' = << "Validation Error" >>
     /\ ((GoToNextStep \/ ResolveTrigger) /\ last'.ok /\ last'.op # "trigger")
          => emitted' = << >>]_vars

\* the part of C26 the code keeps: the step position, the notification, and
\* an error for every field of the step that the form schema rejects
C26_SchemaErrorsReported ==
  [][/\ FailedAdvance
          => /\ currentStep' = currentStep
             /\ TriggerErrors(TriggerNames(AdvanceFrom.step), AdvanceFrom.vals)
                  \subseteq errors'
             /\ emitted' = << "Validation Error" >>
     /\ ((GoToNextStep \/ ResolveTrigger) /\ last'.ok /\ last'.op # "trigger")
          => emitted' = << >>]_vars

\* the Media type the specification gives a MIME type
ClassOf(mimeType) ==
  CASE SubSeq(mimeType, 1, 6) = << "i", "m", "a", "g", "e", "/" >> -> "photo"
    [] SubSeq(mimeType, 1, 6) = << "v", "i", "d", "e", "o", "/" >> -> "video"
    [] SubSeq(mimeType, 1, 6) = << "a", "u", "d", "i", "o", "/" >> -> "audio"
    [] OTHER -> "file"

\* the Media records stored for an Issue, in insertion order
MediaOf(records, issueId) == SelectSeq(records, LAMBDA m : m.issueId = issueId)

\* C27: every Media record has the type its MIME type's prefix gives (image/
\* photo, video/ video, audio/ audio, anything else file), and when a POST
\* handler answers, the Issue it created has one Media record per uploaded
\* file, in upload order, with the Issue's id, the file's original name,
\* path, MIME type and size, and a null transcription.
C27_MediaClassifiedPerFile ==
  /\ [](\A j \in DOMAIN medias : medias[j].type = ClassOf(medias[j].mimeType))
  /\ [][\A i \in DOMAIN handlers : PostRespond(i) =>
          LET h == handlers[i]
              fs == h.req.files
              ms == MediaOf(medias', h.issueId)
          IN  /\ UploadAccepted(fs)
              /\ Len(ms) = Len(fs)
              /\ \A k \in DOMAIN fs :
                   /\ ms[k].issueId = response'.issue[1].id
                   /\ ms[k].type = ClassOf(fs[k].type)
                   /\ ms[k].filename = fs[k].name
                   /\ ms[k].filePath = h.files[k].path
                   /\ ms[k].mimeType = fs[k].type
                   /\ ms[k].fileSize = fs[k].size
                   /\ ms[k].transcription = "null"]_vars

\* C27, reached: a request with a video and an audio file and one with a
\* document and a photo were answered with 201, and the four records are
\* stored.
C27_Witness ==
  /\ response.status = 201
  /\ handlers = << >>
  /\ {medias[j].type : j \in DOMAIN medias} = {"photo", "video", "audio", "file"}

\* C28: a video of an allowed size selected with the file picker while the
\* video bucket holds a video replaces it: afterwards the bucket holds the
\* selected video alone.
C28_BrowsedVideoReplaces ==
  [][\A b \in VideoPicks :
       (/\ MediaUploadFileChange("video", b)
        /\ video # << >>
        /\ Oversized(b, MediaUploadProps("video").maxSize) = {})
         => video' = << b[1] >>]_vars

\* frequency is "custom" and the custom description is absent, empty or blank
CustomWithoutDescription(issueData) ==
  /\ Get(issueData, "frequency") = JStr(S_custom)
  /\ LET d == Get(issueData, "customFrequencyDescription")
     IN  d.t # "string" \/ Blank(d.s)

\* C29: no submission the wizard sends carries frequency = "custom" with an
\* empty custom frequency description: when the validation of a Submit click
\* at step 5 completes with the wizard still at step 5 and the request is
\* sent, its issueData is not such a draft.
C29_NoCustomWithoutDescription ==
  [][(/\ ResolveTrigger
      /\ Head(pending).step = totalSteps
      /\ currentStep = totalSteps
      /\ Len(inflight') = Len(inflight) + 1)
       => ~CustomWithoutDescription(inflight'[Len(inflight')].issueData)]_vars

\* C30: every file a capture adapter places in a media bucket has a MIME
\* type of the backend filter's validTypes: the voice note the recorder
\* stores, and the photo or the video a camera capture delivers.
C30_CapturedTypesAccepted ==
  [][/\ AudioRecorderStop => audio'[1].file.type \in validTypes
     /\ (CaptureDelivered /\ photos' # photos)
          => photos'[Len(photos')].type \in validTypes
     /\ (CaptureDelivered /\ video' # video)
          => video'[1].type \in validTypes]_vars

\* the part of C30 the code keeps: the captures of the camera
C30_CameraTypesAccepted ==
  [][/\ (CaptureDelivered /\ photos' # photos)
          => photos'[Len(photos')].type \in validTypes
     /\ (CaptureDelivered /\ video' # video)
          => video'[1].type \in validTypes]_vars

====
